---- MODULE Spec2Model ----
(***************************************************************************)
(* Model of the CSLB collection pipeline (src/src/cslb/collector.py) and   *)
(* of the database layer it drives (src/src/common/database.py).           *)
(*                                                                         *)
(* Strings are TLA+ strings; Len, \o and SubSeq act on them character by   *)
(* character, so truncation, concatenation and substring tests are the     *)
(* ones the Python code performs.                                          *)
(***************************************************************************)
EXTENDS Integers, Sequences, FiniteSets, TLC

VARIABLES
    pc,             \* position of the collector: which step of run() is next
    df,             \* the DataFrame read from the fetched CSV (sequence of raw rows)
    idx,            \* process_records: number of rows of df already iterated
    records,        \* process_records: list of canonical records built so far
    skipped_stats,  \* process_records: the skip counters and unknown_zips
    delta,          \* table delta_bbb_uploaded_data (rows in insertion order)
    main,           \* table bbb_uploaded_data (set of rows, each with updated_at)
    i,              \* upload_records: start offset of the next batch
    stats,          \* progress.stats: processed/uploaded/failed record counters
    phase,          \* progress.current_phase
    closed,         \* has db.close() been called in this run
    engine,         \* the DatabaseManager's engine: "none", "created", "pooled", "disposed"
    errors,         \* contexts passed to progress.log_error, in order
    result,         \* how run() ended: "none", "True", "False" (returned) or
                    \* "KeyboardInterrupt" (raised)
    now,            \* database clock (CURRENT_TIMESTAMP), one tick per run
    deltaKeyed,     \* schema: does the delta table carry a unique key on uuid
    loaded,         \* which of self.zip_to_bbb, self.bbb_to_agency are filled
    response,       \* fetch_data: the response requests.post returned
    csv_file,       \* run(): what fetch_data returned (None, or the temp file,
                    \* held as the text written to it)
    hist,           \* history: what the previous upload did and what this run
                    \* has done so far, for claims that compare states
    audit_pc,       \* audit_cslb_logic.py: which of its two test loops is next
    audit_case,     \* audit_cslb_logic.py: the arguments of the test case at hand
    audit_result,   \* audit_cslb_logic.py: what the two functions returned for it
    updater_pc,     \* CSLBServiceTablesUpdater.run: where it stands
    dry_run,        \* run(dry_run): simulate only
    tables,         \* run(tables): the service tables to update, in order
    interrupted,    \* self.interrupted, set by the SIGINT handler
    conn,           \* self.conn: "none", "open" or "closed"
    service,        \* the service tables as committed in the database
    updater_hist,   \* history of the updater's run, read by properties only
    txn,            \* the service tables as the open transaction sees them
    cslb_url_map,   \* the temporary table of correct URLs
    analyses,       \* analyses[table]['needs_update'] of the first analysis
    table_ix,       \* how many tables the update loop has passed
    records_updated,\* self.stats['records_updated']
    updater_log,    \* the messages logged that tell how the run went
    exit_code       \* main(): "none" while running, then "0" or "1"

vars == <<pc, df, idx, records, skipped_stats, delta, main, i, stats, phase,
          closed, engine, errors, result, now, deltaKeyed, loaded, response, csv_file,
          hist, audit_pc, audit_case, audit_result,
          updater_pc, dry_run, tables, interrupted, conn, service, updater_hist, txn,
          cslb_url_map, analyses, table_ix, records_updated, updater_log,
          exit_code>>

\* the variables of the collector
collector_vars ==
    <<pc, df, idx, records, skipped_stats, delta, main, i, stats, phase,
      closed, engine, errors, result, now, deltaKeyed, loaded, response, csv_file,
      hist>>

\* the variables of audit_cslb_logic.py
audit_vars == <<audit_pc, audit_case, audit_result>>

\* the variables of cslb_service_tables_updater.py
updater_vars ==
    <<updater_pc, dry_run, tables, interrupted, conn, service, updater_hist, txn,
      cslb_url_map, analyses, table_ix, records_updated, updater_log, exit_code>>

\* the variables of the other programs of the repository
other_vars == <<audit_vars, updater_vars>>

\* audit_cslb_logic.py is not running
AuditIdle ==
    /\ audit_pc = "idle"
    /\ audit_case = <<>>
    /\ audit_result = <<>>

\* cslb_service_tables_updater.py is not running
UpdaterIdle ==
    /\ updater_pc = "idle"
    /\ dry_run = FALSE
    /\ tables = <<>>
    /\ interrupted = FALSE
    /\ conn = "none"
    /\ service = <<>>
    /\ updater_hist = <<>>
    /\ txn = <<>>
    /\ cslb_url_map = {}
    /\ analyses = <<>>
    /\ table_ix = 0
    /\ records_updated = 0
    /\ updater_log = {}
    /\ exit_code = "none"

\* the other programs are not running
OthersIdle == AuditIdle /\ UpdaterIdle

---------------------------------------------------------------------------
(* Bounds of the model *)

MaxRows == 3        \* longest DataFrame handed to process_records alone
MaxFetched == 3     \* longest DataFrame a run of the pipeline fetches
MaxRuns == 2        \* number of successive runs of the pipeline

---------------------------------------------------------------------------
(* Python values *)

\* A missing CSV cell (pandas NaN), a dict.get miss (None), an absent column.
NaN == "<NaN>"
None == "<None>"
Absent == "<absent>"

\* pd.isna(v) / pd.notna(v)
isna(v) == v = NaN

\* str(v) of a cell: NaN prints as "nan"
str(v) == IF v = NaN THEN "nan" ELSE v

\* Python truth value of an optional string: None and "" are false
Falsy(v) == v = None \/ v = ""

\* s[:n]
Prefix(s, n) == SubSeq(s, 1, IF Len(s) < n THEN Len(s) ELSE n)

\* sub in s
Contains(s, sub) ==
    \E k \in 1..(Len(s) - Len(sub) + 1) : SubSeq(s, k, k + Len(sub) - 1) = sub

UpperLetters == "ABCDEFGHIJKLMNOPQRSTUVWXYZ"
LowerLetters == "abcdefghijklmnopqrstuvwxyz"

LowerChar(c) ==
    IF \E k \in 1..26 : SubSeq(UpperLetters, k, k) = c
    THEN LET k == CHOOSE k \in 1..26 : SubSeq(UpperLetters, k, k) = c
         IN  SubSeq(LowerLetters, k, k)
    ELSE c

\* s.lower()
RECURSIVE lower(_)
lower(s) ==
    IF Len(s) = 0 THEN ""
    ELSE LowerChar(SubSeq(s, 1, 1)) \o lower(SubSeq(s, 2, Len(s)))

\* s.strip(): the string without its leading and trailing blanks
RECURSIVE strip(_)
strip(s) ==
    IF Len(s) = 0 THEN ""
    ELSE IF SubSeq(s, 1, 1) = " " THEN strip(SubSeq(s, 2, Len(s)))
    ELSE IF SubSeq(s, Len(s), Len(s)) = " " THEN strip(SubSeq(s, 1, Len(s) - 1))
    ELSE s

---------------------------------------------------------------------------
(* Configuration and lookup tables *)

\* CollectorConfig.use_delta_table
use_delta_table == TRUE

\* CollectorConfig.db_batch_size: records per call of bulk_insert
\* (5000 in the source; scaled down, kept a multiple of insert_batch_size)
db_batch_size == 2

\* the batch_size upload_records passes to bulk_insert: rows per execute
\* (1000 in the source; scaled down)
insert_batch_size == 1

\* number of leading characters of ZIPCode that form the lookup key
ZipKeyLen == 5

UrlTemplate ==
    "https://www2.cslb.ca.gov/OnlineServices/CheckLicenseII/LicenseDetail.aspx?LicNum="

\* self.zip_to_bbb after load_mappings: postal code -> affiliate (BBB) id
zip_to_bbb ==
    [z \in {"94101", "90001", "95000"} |->
        CASE z = "94101" -> "1116"
          [] z = "90001" -> "1126"
          [] z = "95000" -> "1999"]

\* self.bbb_to_agency after load_mappings: affiliate id -> agency id
bbb_to_agency ==
    [b \in {"1116", "1126"} |->
        CASE b = "1116" -> "117"
          [] b = "1126" -> "3888"]

\* dict.get(key): the value, or None
Get(map, key) == IF key \in DOMAIN map THEN map[key] ELSE None

---------------------------------------------------------------------------
(* process_records: the body of the per-row loop *)

\* zip_code as a faulty variant: the postal code is not truncated
zip_code_untruncated(row) ==
    IF ~isna(row.ZIPCode) THEN str(row.ZIPCode) ELSE ""

\* zip_code = str(row['ZIPCode'])[:5] if pd.notna(row['ZIPCode']) else ''
zip_code(row) ==
    IF ~isna(row.ZIPCode) THEN Prefix(str(row.ZIPCode), ZipKeyLen) ELSE ""

\* MakeUuid as a faulty variant: a separator between agency id and license
MakeUuid_with_separator(agency_id, LicenseNo) == agency_id \o "-" \o str(LicenseNo)

\* uuid = f"{agency_id}{row['LicenseNo']}"
MakeUuid(agency_id, LicenseNo) == agency_id \o str(LicenseNo)

\* MakeRecord as a faulty variant: the URL is copied from the raw row when
\* the row carries one
MakeRecord_url_from_row(row, bbb_id, agency_id) ==
    [uuid           |-> MakeUuid(agency_id, row.LicenseNo),
     bbb_id         |-> bbb_id,
     agency_id      |-> agency_id,
     zip            |-> row.ZIPCode,
     license_nbr    |-> str(row.LicenseNo),
     agency_url     |-> IF isna(row.Website)
                        THEN UrlTemplate \o str(row.LicenseNo) ELSE row.Website,
     license_status |-> row.PrimaryStatus]

\* MakeRecord as a faulty variant: the postal code enters the uuid
MakeRecord_uuid_with_zip(row, bbb_id, agency_id) ==
    [uuid           |-> MakeUuid(agency_id, row.LicenseNo) \o str(row.ZIPCode),
     bbb_id         |-> bbb_id,
     agency_id      |-> agency_id,
     zip            |-> row.ZIPCode,
     license_nbr    |-> str(row.LicenseNo),
     agency_url     |-> UrlTemplate \o str(row.LicenseNo),
     license_status |-> row.PrimaryStatus]

\* the dictionary appended to records for a row that resolves
MakeRecord(row, bbb_id, agency_id) ==
    [uuid           |-> MakeUuid(agency_id, row.LicenseNo),
     bbb_id         |-> bbb_id,
     agency_id      |-> agency_id,
     zip            |-> row.ZIPCode,
     license_nbr    |-> str(row.LicenseNo),
     agency_url     |-> UrlTemplate \o str(row.LicenseNo),
     license_status |-> row.PrimaryStatus]

\* ProcessRow as a faulty variant: the license is checked before the tables
\* are looked up
ProcessRow_license_first(row) ==
    LET zc        == zip_code(row)
        bbb_id    == Get(zip_to_bbb, zc)
        agency_id == Get(bbb_to_agency, bbb_id)
    IN  IF row.LicenseNo = Absent
        THEN [kind |-> "invalid_license", how |-> "except", zip |-> zc]
        ELSE IF isna(row.LicenseNo) \/ strip(str(row.LicenseNo)) = ""
        THEN [kind |-> "invalid_license", how |-> "continue", zip |-> zc]
        ELSE IF Falsy(bbb_id)
        THEN [kind |-> "no_bbb_id", how |-> "continue", zip |-> zc]
        ELSE IF Falsy(agency_id)
        THEN [kind |-> "no_agency_id", how |-> "continue", zip |-> zc]
        ELSE IF Contains(MakeUuid(agency_id, row.LicenseNo), "None")
                \/ Contains(lower(MakeUuid(agency_id, row.LicenseNo)), "nan")
        THEN [kind |-> "invalid_license", how |-> "continue", zip |-> zc]
        ELSE [kind |-> "record", how |-> "fall", zip |-> zc,
              rec |-> MakeRecord(row, bbb_id, agency_id)]

\* ProcessRow as a faulty variant: a license of blanks only passes the
\* validation (the .strip() is missing)
ProcessRow_no_strip(row) ==
    LET zc        == zip_code(row)
        bbb_id    == Get(zip_to_bbb, zc)
        agency_id == Get(bbb_to_agency, bbb_id)
    IN  IF Falsy(bbb_id)
        THEN [kind |-> "no_bbb_id", how |-> "continue", zip |-> zc]
        ELSE IF Falsy(agency_id)
        THEN [kind |-> "no_agency_id", how |-> "continue", zip |-> zc]
        ELSE IF row.LicenseNo = Absent
        THEN [kind |-> "invalid_license", how |-> "except", zip |-> zc]
        ELSE IF isna(row.LicenseNo) \/ str(row.LicenseNo) = ""
        THEN [kind |-> "invalid_license", how |-> "continue", zip |-> zc]
        ELSE IF Contains(MakeUuid(agency_id, row.LicenseNo), "None")
                \/ Contains(lower(MakeUuid(agency_id, row.LicenseNo)), "nan")
        THEN [kind |-> "invalid_license", how |-> "continue", zip |-> zc]
        ELSE [kind |-> "record", how |-> "fall", zip |-> zc,
              rec |-> MakeRecord(row, bbb_id, agency_id)]

\* The outcome of one iteration of the loop: the counter it increments
\* ("record" when it appends a record), whether it ended by `continue`,
\* by falling through or in the except clause, and the record if any.
ProcessRow(row) ==
    LET zc        == zip_code(row)
        bbb_id    == Get(zip_to_bbb, zc)
        agency_id == Get(bbb_to_agency, bbb_id)
    IN  IF Falsy(bbb_id)
        THEN [kind |-> "no_bbb_id", how |-> "continue", zip |-> zc]
        ELSE IF Falsy(agency_id)
        THEN [kind |-> "no_agency_id", how |-> "continue", zip |-> zc]
        ELSE IF row.LicenseNo = Absent
        THEN [kind |-> "invalid_license", how |-> "except", zip |-> zc]
        ELSE IF isna(row.LicenseNo) \/ strip(str(row.LicenseNo)) = ""
        THEN [kind |-> "invalid_license", how |-> "continue", zip |-> zc]
        ELSE IF Contains(MakeUuid(agency_id, row.LicenseNo), "None")
                \/ Contains(lower(MakeUuid(agency_id, row.LicenseNo)), "nan")
        THEN [kind |-> "invalid_license", how |-> "continue", zip |-> zc]
        ELSE [kind |-> "record", how |-> "fall", zip |-> zc,
              rec |-> MakeRecord(row, bbb_id, agency_id)]

\* CountRow as a faulty variant: a row that ended in the except clause is
\* not counted
CountRow_except_uncounted(ss, out) ==
    [no_bbb_id       |-> ss.no_bbb_id + (IF out.kind = "no_bbb_id" THEN 1 ELSE 0),
     no_agency_id    |-> ss.no_agency_id + (IF out.kind = "no_agency_id" THEN 1 ELSE 0),
     invalid_license |-> ss.invalid_license
                            + (IF out.kind = "invalid_license" /\ out.how # "except"
                               THEN 1 ELSE 0),
     unknown_zips    |-> IF out.kind = "no_bbb_id" /\ out.zip # ""
                         THEN ss.unknown_zips \cup {out.zip}
                         ELSE ss.unknown_zips]

\* skipped_stats after the iteration
CountRow(ss, out) ==
    [no_bbb_id       |-> ss.no_bbb_id + (IF out.kind = "no_bbb_id" THEN 1 ELSE 0),
     no_agency_id    |-> ss.no_agency_id + (IF out.kind = "no_agency_id" THEN 1 ELSE 0),
     invalid_license |-> ss.invalid_license
                            + (IF out.kind = "invalid_license" THEN 1 ELSE 0),
     unknown_zips    |-> IF out.kind = "no_bbb_id" /\ out.zip # ""
                         THEN ss.unknown_zips \cup {out.zip}
                         ELSE ss.unknown_zips]

EmptyStats ==
    [no_bbb_id |-> 0, no_agency_id |-> 0, invalid_license |-> 0, unknown_zips |-> {}]

---------------------------------------------------------------------------
(* The database layer *)

Min(a, b) == IF a < b THEN a ELSE b

\* the uuids of the rows of a table held as a sequence
UuidsOf(rows) == {rows[k].uuid : k \in 1..Len(rows)}

\* two rows of the sequence carry the same uuid
HasDuplicateUuid(rows) ==
    \E a, b \in 1..Len(rows) : a # b /\ rows[a].uuid = rows[b].uuid

\* Rollback as a faulty variant: the statements the session executed before
\* the exception stay applied (every execute autocommits)
Rollback_keeps_written(before, after) == after

\* get_session, the except branch: session.rollback() discards what the
\* session executed. `before` is the table when the session opened, `after`
\* the table as the session's statements left it.
Rollback(before, after) == before

\* get_session, the normal exit: session.commit() makes it permanent
Commit(before, after) == after

\* Close as a faulty variant: the rows the session wrote before the
\* interrupt stay in the table
Close_keeps_written(before, after) == after

\* get_session left by a KeyboardInterrupt, which `except Exception` does not
\* catch: only session.close() runs, and closing a session discards its
\* open transaction
Close(before, after) == before

\* What may go wrong in a session of n statements: nothing, or the database
\* raises an error at statement k, or the operator interrupts at statement
\* k (k = n + 1: at the commit); an interrupt at the commit is delivered
\* either before the commit ("interrupt") or once it has returned
\* ("late_interrupt")
Faults(n) ==
    {<<0, "none">>}
        \cup {<<k, kind>> : k \in 1..(n + 1), kind \in {"error", "interrupt"}}
        \cup {<<n + 1, "late_interrupt">>}

\* what get_session calls on its session when the body has ended: commit
\* and close after a body that finished; rollback and close after an
\* Exception (of the body or of commit); close alone after a
\* KeyboardInterrupt, which the finally clause still sees
Committed == <<"commit", "close">>
RolledBack == <<"rollback", "close">>
ClosedOnly == <<"close">>

\* how a session ends that meets fault f at its current statement
Abort(f, before, after) ==
    CASE f[2] = "interrupt" ->
            [outcome |-> "interrupt", table |-> Close(before, after),
             calls |-> ClosedOnly]
      [] f[2] = "late_interrupt" ->
            [outcome |-> "interrupt", table |-> Commit(before, after),
             calls |-> Committed]
      [] OTHER ->
            [outcome |-> "error", table |-> Rollback(before, after),
             calls |-> RolledBack]

\* The unique key of the table (when it has one) rejects an executemany
\* whose rows repeat a uuid already in the table (rows written earlier by
\* the same session included) or repeated inside the statement.
UniqueViolation(keyed, table, chunk) ==
    /\ keyed
    /\ \/ HasDuplicateUuid(chunk)
       \/ UuidsOf(chunk) \cap UuidsOf(table) # {}

\* Number of session.execute calls bulk_insert makes for a batch
NumChunks(batch) == (Len(batch) + insert_batch_size - 1) \div insert_batch_size

\* The k-th chunk: records[i:i + batch_size] of bulk_insert's loop
Chunk(batch, k) ==
    SubSeq(batch, (k - 1) * insert_batch_size + 1,
           Min(k * insert_batch_size, Len(batch)))

\* bulk_insert from its k-th execute on, inside one session: `table` is the
\* table when the session opened, `cur` the table with the rows executed so
\* far, `fault` the fault the session meets. Returns how bulk_insert ended
\* ("ok": it returned; "error": it raised; "interrupt") and the table
\* afterwards.
RECURSIVE BulkInsertFrom(_, _, _, _, _, _)
BulkInsertFrom(keyed, table, cur, batch, k, fault) ==
    IF fault[1] = k
    THEN Abort(fault, table, cur)
    ELSE IF k > NumChunks(batch)
    THEN [outcome |-> "ok", table |-> Commit(table, cur), calls |-> Committed]
    ELSE IF UniqueViolation(keyed, cur, Chunk(batch, k))
    THEN [outcome |-> "error", table |-> Rollback(table, cur), calls |-> RolledBack]
    ELSE BulkInsertFrom(keyed, table, cur \o Chunk(batch, k), batch, k + 1, fault)

\* DatabaseManager.bulk_insert(table, records, batch_size)
bulk_insert(keyed, table, batch, fault) ==
    BulkInsertFrom(keyed, table, table, batch, 1, fault)

\* clear_delta_table as a faulty variant: nothing is deleted
clear_delta_table_keeps(table) == table

\* DatabaseManager.clear_delta_table: DELETE FROM delta_bbb_uploaded_data
clear_delta_table(table) == <<>>

\* the columns the merge statement copies from a delta row
Columns(d) ==
    [uuid |-> d.uuid, bbb_id |-> d.bbb_id, agency_id |-> d.agency_id,
     zip |-> d.zip, license_nbr |-> d.license_nbr, agency_url |-> d.agency_url,
     license_status |-> d.license_status]

\* a row of bbb_uploaded_data: the copied columns and updated_at
MainRow(d, ts) ==
    [uuid |-> d.uuid, bbb_id |-> d.bbb_id, agency_id |-> d.agency_id,
     zip |-> d.zip, license_nbr |-> d.license_nbr, agency_url |-> d.agency_url,
     license_status |-> d.license_status, updated_at |-> ts]

\* Upsert as a faulty variant: a plain INSERT, no conflict handling
Upsert_plain_insert(rows, d, ts, dflt) == rows \cup {MainRow(d, dflt)}

\* Upsert as a faulty variant: ON CONFLICT (uuid) DO NOTHING
Upsert_do_nothing(rows, d, ts, dflt) ==
    IF \E m \in rows : m.uuid = d.uuid THEN rows
    ELSE rows \cup {MainRow(d, dflt)}

\* Upsert as a faulty variant: the table is replaced by the selected row
Upsert_replaces_table(rows, d, ts, dflt) == {MainRow(d, ts)}

\* INSERT ... ON CONFLICT (uuid) DO UPDATE SET <every column> = EXCLUDED.<column>,
\* updated_at = CURRENT_TIMESTAMP, for one selected row d. An inserted row
\* gets the column default `dflt` as updated_at.
Upsert(rows, d, ts, dflt) ==
    IF \E m \in rows : m.uuid = d.uuid
    THEN {m \in rows : m.uuid # d.uuid} \cup {MainRow(d, ts)}
    ELSE rows \cup {MainRow(d, dflt)}

\* The merge statement from the k-th selected row on, inside one session.
\* The statement raises when the session meets its fault and when a selected
\* row carries the uuid of a row the same statement already wrote (ON
\* CONFLICT DO UPDATE cannot affect a row a second time).
RECURSIVE MergeFrom(_, _, _, _, _, _, _)
MergeFrom(rows, cur, staged, k, ts, dflt, fault) ==
    IF fault[1] = k
    THEN Abort(fault, rows, cur)
    ELSE IF k > Len(staged)
    THEN [outcome |-> "ok", table |-> Commit(rows, cur), calls |-> Committed]
    ELSE IF staged[k].uuid \in UuidsOf(SubSeq(staged, 1, k - 1))
    THEN [outcome |-> "error", table |-> Rollback(rows, cur), calls |-> RolledBack]
    ELSE MergeFrom(rows, Upsert(cur, staged[k], ts, dflt), staged, k + 1,
                   ts, dflt, fault)

\* DatabaseManager.merge_delta_to_main
merge_delta_to_main(rows, staged, ts, dflt, fault) ==
    MergeFrom(rows, rows, staged, 1, ts, dflt, fault)

---------------------------------------------------------------------------
(* Inputs *)

\* all sequences over S of length at most n
RECURSIVE SeqsUpTo(_, _)
SeqsUpTo(S, n) ==
    IF n = 0 THEN {<<>>}
    ELSE LET shorter == SeqsUpTo(S, n - 1)
         IN  shorter \cup {Append(q, x) : q \in {r \in shorter : Len(r) = n - 1}, x \in S}

\* raw rows a pipeline run may fetch: two rows of one license with different
\* status, a row of another affiliate, a row with an unknown postal code
FetchedRows ==
    {[ZIPCode |-> "94101", LicenseNo |-> "A", PrimaryStatus |-> "CLEAR"],
     [ZIPCode |-> "94101", LicenseNo |-> "A", PrimaryStatus |-> "Expired"],
     [ZIPCode |-> "90001", LicenseNo |-> "B", PrimaryStatus |-> "CLEAR"],
     [ZIPCode |-> "99999", LicenseNo |-> "B", PrimaryStatus |-> "CLEAR"]}

\* contents of bbb_uploaded_data before the first run
InitialMains ==
    {{},
     {[uuid |-> "117A", bbb_id |-> "1116", agency_id |-> "117", zip |-> "94101",
       license_nbr |-> "A", agency_url |-> UrlTemplate \o "A",
       license_status |-> "Old", updated_at |-> 0]}}

\* hist. Of the previous run that called upload_records, if it inserted every
\* batch and its merge committed (ok): its records, and bbb_uploaded_data when
\* it ended (main). Of the current run: whether upload_records was called
\* (uploaded), whether every batch so far was inserted (all_inserted), how the
\* merge ended (merged: "no", "ok", "failed", "interrupted"), bbb_uploaded_data
\* when the merge began (before), the phases entered (steps), how many rows of
\* the delta table were staged by earlier runs (stale; stale0 at the start),
\* whether the database or the operator injected a failure (injected), and
\* what get_session called on the last session that ended (session).
NoHist ==
    [records |-> <<>>, ok |-> FALSE, main |-> {},
     uploaded |-> FALSE, all_inserted |-> FALSE, merged |-> "no", before |-> {},
     steps |-> <<>>, stale |-> 0, stale0 |-> 0, injected |-> FALSE,
     session |-> <<>>]

\* the current run's part of hist at the start of a run
FreshHist(h, staged) ==
    [h EXCEPT !.uploaded = FALSE, !.all_inserted = FALSE, !.merged = "no",
              !.before = {}, !.steps = <<>>, !.stale = Len(staged),
              !.stale0 = Len(staged), !.injected = FALSE, !.session = <<>>]

\* rows of earlier runs still in the delta table after a statement: they are
\* the oldest rows, so at most as many as the table has rows
StaleAfter(h, staged) == IF Len(staged) < h.stale THEN Len(staged) ELSE h.stale

\* hist.steps with phase p entered (entering the current phase again adds nothing)
Enter(h, p) ==
    IF h.steps # <<>> /\ h.steps[Len(h.steps)] = p THEN h.steps
    ELSE Append(h.steps, p)

NewStats == [total_records |-> 0, processed_records |-> 0,
             uploaded_records |-> 0, failed_records |-> 0]

---------------------------------------------------------------------------
(* fetch_data: the response of the service and its decoding *)

\* the envelope fetch_data removes from the response: the text before and
\* the text after the base64 content
EnvelopePrefix ==
    "<?xml version=\"1.0\" encoding=\"utf-8\"?><soap:Envelope xmlns:s"
    \o "oap=\"http://schemas.xmlsoap.org/soap/envelope/\" xmlns:xsi=\"h"
    \o "ttp://www.w3.org/2001/XMLSchema-instance\" xmlns:xsd=\"http://"
    \o "www.w3.org/2001/XMLSchema\"><soap:Body><GetMasterFileResponse"
    \o " xmlns=\"http://CSLB.Ca.gov/\"><GetMasterFileResult>"

EnvelopeSuffix ==
    "</GetMasterFileResult></GetMasterFileResponse></soap:Body></"
    \o "soap:Envelope>"

\* envelopes of a service whose contract changed: the bare element names,
\* and a SOAP 1.2 envelope
BarePrefix ==
    "<soap:Envelope><soap:Body><GetMasterFileResponse><GetMasterF"
    \o "ileResult>"

Soap12Prefix ==
    "<?xml version=\"1.0\" encoding=\"utf-8\"?><soap12:Envelope xmlns"
    \o ":soap12=\"http://www.w3.org/2003/05/soap-envelope\" xmlns:xsi="
    \o "\"http://www.w3.org/2001/XMLSchema-instance\" xmlns:xsd=\"http:"
    \o "//www.w3.org/2001/XMLSchema\"><soap12:Body><GetMasterFileResp"
    \o "onse xmlns=\"http://CSLB.Ca.gov/\"><GetMasterFileResult>"

Soap12Suffix ==
    "</GetMasterFileResult></GetMasterFileResponse></soap12:Body>"
    \o "</soap12:Envelope>"

\* the header line of the master file; the data lines of the file are held
\* as the rows pd.read_csv makes of them (df), not as text
CsvHeader == "LicenseNo,ZIPCode,PrimaryStatus\n"

\* base64 of CsvHeader, and the same cut short by three characters
EncodedCsv == "TGljZW5zZU5vLFpJUENvZGUsUHJpbWFyeVN0YXR1cwo="
CutEncodedCsv == "TGljZW5zZU5vLFpJUENvZGUsUHJpbWFyeVN0YXR1c"

\* the base64 alphabet, in the order of the values 0..63
Base64Alphabet ==
    "ABCDEFGHIJKLMNOPQRSTUVWXYZabcdefghijklmnopqrstuvwxyz01234567"
    \o "89+/"

\* the printable ASCII characters, in the order of the codes 32..126 (the
\* grave accent, code 96, cannot stand in a string here and is held as "?")
PrintableAscii ==
    " !\"#$%&'()*+,-./0123456789:;<=>?@ABCDEFGHIJKLMNOPQRSTUVWXYZ["
    \o "\\]^_?abcdefghijklmnopqrstuvwxyz{|}~"

\* position of character c in string s, 0 when it is not there
IndexIn(c, s) ==
    LET at == {k \in 1..Len(s) : SubSeq(s, k, k) = c}
    IN  IF at = {} THEN 0 ELSE CHOOSE k \in at : TRUE

\* str(response.content): the printed form of a bytes object whose bytes are
\* printable and hold no quote or backslash
str_bytes(content) == "b'" \o content \o "'"

\* the characters of s that stand in `keep`, in their order (by halves, so
\* that long strings are handled)
RECURSIVE Filter(_, _)
Filter(s, keep) ==
    IF Len(s) = 0 THEN ""
    ELSE IF Len(s) = 1 THEN (IF IndexIn(s, keep) > 0 THEN s ELSE "")
    ELSE LET half == Len(s) \div 2
         IN  Filter(SubSeq(s, 1, half), keep)
                \o Filter(SubSeq(s, half + 1, Len(s)), keep)

\* s.replace(old, ''): every occurrence of old is taken out, left to right
RECURSIVE Remove(_, _)
Remove(s, old) ==
    LET hits == {k \in 1..(Len(s) - Len(old) + 1) :
                    SubSeq(s, k, k + Len(old) - 1) = old}
    IN  IF hits = {} \/ Len(old) = 0 THEN s
        ELSE LET k == CHOOSE h \in hits : \A g \in hits : h <= g
             IN  SubSeq(s, 1, k - 1)
                    \o Remove(SubSeq(s, k + Len(old), Len(s)), old)

\* ''.join(s.splitlines()): s without its line breaks
JoinLines(s) == Filter(s, PrintableAscii)

\* byte j of the bytes that the base64 characters `data` encode: each group
\* of four characters gives three bytes
ByteAt(data, j) ==
    LET g  == (j - 1) \div 3
        v(n) == IndexIn(SubSeq(data, 4 * g + n, 4 * g + n), Base64Alphabet) - 1
    IN  CASE (j - 1) % 3 = 0 -> v(1) * 4 + v(2) \div 16
          [] (j - 1) % 3 = 1 -> (v(2) % 16) * 16 + v(3) \div 4
          [] (j - 1) % 3 = 2 -> (v(3) % 4) * 64 + v(4)

\* binascii.a2b_base64, not strict. A character outside the alphabet is
\* passed over. A "=" ends the decoding when, with the "=" before it since
\* the last data character, it completes a group of at least two data
\* characters; what follows is not read. Without such a "=", data
\* characters left in an open group at the end raise binascii.Error
\* (ok = FALSE). `sig` are the characters that count, `pad` the positions of
\* "=" in it, DataBefore(k) the data characters before position k, Run(k)
\* the "=" in a row up to k, `stops` the "=" that end the decoding.
a2b_base64(s) ==
    LET sig  == Filter(s, Base64Alphabet \o "=")
        pad  == {k \in 1..Len(sig) : SubSeq(sig, k, k) = "="}
        DataBefore(k) == (k - 1) - Cardinality({e \in pad : e < k})
        Run(k) == CHOOSE n \in 1..k :
                      /\ \A m \in (k - n + 1)..k : m \in pad
                      /\ (k - n) \notin pad
        stops == {k \in pad : /\ DataBefore(k) % 4 >= 2
                              /\ (DataBefore(k) % 4) + Run(k) >= 4}
        upto == IF stops = {} THEN Len(sig)
                ELSE (CHOOSE k \in stops : \A g \in stops : k <= g) - 1
        data == Filter(SubSeq(sig, 1, upto), Base64Alphabet)
        n    == Len(data)
        nbytes == 3 * (n \div 4)
                    + (IF n % 4 = 2 THEN 1 ELSE IF n % 4 = 3 THEN 2 ELSE 0)
    IN  IF stops = {} /\ n % 4 # 0
        THEN [ok |-> FALSE, bytes |-> <<>>]
        ELSE [ok |-> TRUE, bytes |-> [j \in 1..nbytes |-> ByteAt(data, j)]]

\* base64.b64decode(s)
b64decode(s) == a2b_base64(s)

\* bytes.decode('utf-8', errors='replace') of one byte: a printable ASCII
\* byte and the line feed are themselves; every other byte is shown as "?",
\* the replacement character
Chr(b) ==
    IF b = 10 THEN "\n"
    ELSE IF b >= 32 /\ b <= 126 THEN SubSeq(PrintableAscii, b - 31, b - 31)
    ELSE "?"

\* bytes.decode('utf-8', errors='replace'), by halves
RECURSIVE decode_utf8(_)
decode_utf8(bytes) ==
    IF Len(bytes) = 0 THEN ""
    ELSE IF Len(bytes) = 1 THEN Chr(bytes[1])
    ELSE LET half == Len(bytes) \div 2
         IN  decode_utf8(SubSeq(bytes, 1, half))
                \o decode_utf8(SubSeq(bytes, half + 1, Len(bytes)))

\* a response of requests.post: how the transport ended, and the body
NoResponse == [transport |-> "none", content |-> ""]

\* the responses the service may give: the transport fails (the connection,
\* the timeout, a status that raise_for_status rejects), or a body arrives
\* in the expected or in another envelope, whole or cut short
Responses ==
    {[transport |-> t, content |-> ""] :
        t \in {"connection_error", "timeout", "http_error"}}
    \cup {[transport |-> "ok", content |-> p \o b \o s] :
            p \in {EnvelopePrefix, BarePrefix, Soap12Prefix},
            b \in {EncodedCsv, CutEncodedCsv},
            s \in {EnvelopeSuffix, Soap12Suffix}}

\* fetch_data after requests.post: what it returns (csv_file: None, or the
\* temp file, held as the text written to it) and the context it passes to
\* log_error. A transport failure is a requests.RequestException; an
\* exception of the decoding is caught by `except Exception`.
fetch_data(resp) ==
    IF resp.transport # "ok"
    THEN [csv_file |-> None, context |-> "API request failed"]
    ELSE LET content     == Remove(Remove(str_bytes(resp.content), EnvelopePrefix),
                                   EnvelopeSuffix)
             joined      == JoinLines(content)
             file_string == SubSeq(joined, 3, Len(joined) - 1)
             decoded     == b64decode(file_string)
         IN  IF decoded.ok
             THEN [csv_file |-> decode_utf8(decoded.bytes), context |-> "none"]
             ELSE [csv_file |-> None, context |-> "Fetching data"]

\* fetch_data for every response the service may give
FetchOutcome == [resp \in Responses |-> fetch_data(resp)]

\* a row of a file whose header line is damaged: the first column,
\* LicenseNo, is not found under its name
RowWithoutLicenseNo ==
    [ZIPCode |-> "94101", LicenseNo |-> Absent, PrimaryStatus |-> "CLEAR"]

\* the DataFrames pd.read_csv may make of the temp file: any rows under the
\* expected header line; under any other first line no row, or rows
\* without a LicenseNo column
read_csv(text) ==
    IF text = CsvHeader THEN SeqsUpTo(FetchedRows, MaxFetched)
    ELSE {<<>>, <<RowWithoutLicenseNo>>}

---------------------------------------------------------------------------
(* progress *)

\* ScraperProgress.log_error: counts one failed record and logs the context
log_error(st, ctx) == [st EXCEPT !.failed_records = @ + 1]

---------------------------------------------------------------------------
(* The collector *)

Init ==
    /\ OthersIdle
    /\ pc = "idle"
    /\ df = <<>>
    /\ idx = 0
    /\ records = <<>>
    /\ skipped_stats = EmptyStats
    /\ delta = <<>>
    /\ main \in InitialMains
    /\ i = 0
    /\ stats = NewStats
    /\ phase = "INIT"
    /\ closed = FALSE
    /\ engine = "none"
    /\ errors = <<>>
    /\ result = "none"
    /\ now = 0
    /\ deltaKeyed \in BOOLEAN
    /\ loaded = {}
    /\ response = NoResponse
    /\ csv_file = None
    /\ hist = NoHist

\* run(), the except clause: set_phase('ERROR'), log_error, return False
RunFails(st, errs) ==
    /\ phase' = "ERROR"
    /\ stats' = log_error(st, "Main execution")
    /\ errors' = Append(errs, <<"Main execution">>)
    /\ result' = "False"
    /\ pc' = "finished"

\* CSLBCollector() and the first lines of run(): a new progress object,
\* set_phase('CONFIG')
run_start ==
    /\ UNCHANGED other_vars
    /\ pc = "idle"
    /\ now < MaxRuns
    /\ now' = now + 1
    /\ pc' = "test_connection"
    /\ phase' = "CONFIG"
    /\ stats' = NewStats
    /\ errors' = <<>>
    /\ result' = "none"
    /\ closed' = FALSE
    /\ records' = <<>>
    /\ hist' = FreshHist(hist, delta)
    /\ UNCHANGED <<df, idx, skipped_stats, delta, main, i, engine, deltaKeyed, response, csv_file, loaded>>

\* DatabaseManager.close: `if self._engine: self._engine.dispose()`
dispose(e) == IF e = "none" THEN "none" ELSE "disposed"

\* run(): if not self.db.test_connection(): raise. The first session makes
\* the engine; when SELECT 1 succeeds its connection goes back to the pool,
\* when it raises test_connection returns False and no connection is held.
run_test_connection ==
    /\ UNCHANGED other_vars
    /\ pc = "test_connection"
    /\ \E ok \in BOOLEAN :
          IF ok
          THEN /\ engine' = "pooled"
               /\ pc' = "load_mappings"
               /\ UNCHANGED <<phase, stats, errors, result>>
          ELSE /\ engine' = "created"
               /\ RunFails(stats, errors)
    /\ UNCHANGED <<df, idx, records, skipped_stats, delta, main, i, closed, now,
                   deltaKeyed, response, csv_file, loaded, hist>>

\* the two lookup tables of the collector
BothTables == {"zip_to_bbb", "bbb_to_agency"}

\* what a mapping file can be: there and readable, not there, or there but
\* reading it raises
FileStates == {"present", "absent", "unreadable"}

\* load_mappings as a faulty variant: an absent file is passed over
load_mappings_skips_absent(zip_file, agency_file) ==
    IF zip_file = "unreadable"
    THEN [ok |-> FALSE, error |-> TRUE, tables |-> {}]
    ELSE IF agency_file = "unreadable"
    THEN [ok |-> FALSE, error |-> TRUE,
          tables |-> IF zip_file = "present" THEN {"zip_to_bbb"} ELSE {}]
    ELSE [ok |-> TRUE, error |-> FALSE,
          tables |-> (IF zip_file = "present" THEN {"zip_to_bbb"} ELSE {})
                        \cup (IF agency_file = "present" THEN {"bbb_to_agency"} ELSE {})]

\* load_mappings: the ZIP file is read first, then the agency file. A file
\* that does not exist makes it return False at once (a warning is logged);
\* an exception while reading is logged with log_error and it returns
\* False. `tables` are the dictionaries filled when it returns.
load_mappings(zip_file, agency_file) ==
    IF zip_file = "absent"
    THEN [ok |-> FALSE, error |-> FALSE, tables |-> {}]
    ELSE IF zip_file = "unreadable"
    THEN [ok |-> FALSE, error |-> TRUE, tables |-> {}]
    ELSE IF agency_file = "absent"
    THEN [ok |-> FALSE, error |-> FALSE, tables |-> {"zip_to_bbb"}]
    ELSE IF agency_file = "unreadable"
    THEN [ok |-> FALSE, error |-> TRUE, tables |-> {"zip_to_bbb"}]
    ELSE [ok |-> TRUE, error |-> FALSE, tables |-> BothTables]

\* run(): if not self.load_mappings(): raise
run_load_mappings ==
    /\ UNCHANGED other_vars
    /\ pc = "load_mappings"
    /\ \E zip_file \in FileStates, agency_file \in FileStates :
          LET r == load_mappings(zip_file, agency_file)
          IN  /\ loaded' = r.tables
              /\ IF r.ok
                 THEN /\ pc' = "fetch_data"
                      /\ UNCHANGED <<phase, stats, errors, result>>
                 ELSE IF r.error
                 THEN RunFails(log_error(stats, "Loading mappings"),
                               Append(errors, <<"Loading mappings">>))
                 ELSE RunFails(stats, errors)
    /\ UNCHANGED <<df, idx, records, skipped_stats, delta, main, i, closed, engine, now,
                   deltaKeyed, response, csv_file, hist>>

\* fetch_data up to the response: set_phase('COLLECT'), requests.post
fetch_data_post ==
    /\ UNCHANGED other_vars
    /\ pc = "fetch_data"
    /\ \E resp \in Responses : response' = resp
    /\ phase' = "COLLECT"
    /\ pc' = "fetch_decode"
    /\ hist' = [hist EXCEPT !.steps = Enter(hist, "fetch")]
    /\ UNCHANGED <<df, idx, records, skipped_stats, delta, main, i, stats, closed, engine,
                   errors, result, now, deltaKeyed, loaded, csv_file>>

\* the rest of fetch_data and run(): csv_file = self.fetch_data();
\* if not csv_file: raise. The rows pd.read_csv will make of the temp file
\* are held in df from here on.
run_fetch_data ==
    /\ UNCHANGED other_vars
    /\ pc = "fetch_decode"
    /\ response' = NoResponse
    /\ LET r == FetchOutcome[response]
       IN  /\ csv_file' = r.csv_file
           /\ IF Falsy(r.csv_file)
              THEN /\ RunFails(log_error(stats, r.context),
                               Append(errors, <<r.context>>))
                   /\ df' = df
              ELSE /\ \E rows \in read_csv(r.csv_file) : df' = rows
                   /\ pc' = "process_records"
                   /\ UNCHANGED <<phase, stats, errors, result>>
    /\ UNCHANGED <<idx, records, skipped_stats, delta, main, i, closed, engine, now,
                   deltaKeyed, loaded, hist>>

\* process_records up to the loop: set_phase('PROCESS'), pd.read_csv,
\* set_total. When read_csv raises, the outer except logs the error and
\* process_records returns [].
process_records_begin ==
    /\ UNCHANGED other_vars
    /\ pc = "process_records"
    /\ phase' = "PROCESS"
    /\ idx' = 0
    /\ records' = <<>>
    /\ skipped_stats' = EmptyStats
    /\ \/ /\ stats' = [stats EXCEPT !.total_records = Len(df)]
          /\ pc' = "rows"
          /\ UNCHANGED <<df, errors>>
       \/ /\ stats' = log_error(stats, "Processing records")
          /\ errors' = Append(errors, <<"Processing records">>)
          /\ df' = <<>>
          /\ pc' = "check_records"
    /\ hist' = [hist EXCEPT !.steps = Enter(hist, "resolve")]
    /\ UNCHANGED <<delta, main, i, closed, engine, result, now, deltaKeyed, response, csv_file, loaded>>

\* one iteration of `for idx, row in df.iterrows()`
process_row ==
    /\ UNCHANGED other_vars
    /\ pc = "rows"
    /\ idx < Len(df)
    /\ LET out == ProcessRow(df[idx + 1])
       IN  /\ records' = IF out.kind = "record"
                         THEN Append(records, out.rec) ELSE records
           /\ skipped_stats' = CountRow(skipped_stats, out)
           /\ stats' = IF out.how = "continue" THEN stats
                       ELSE [stats EXCEPT !.processed_records = @ + 1]
    /\ idx' = idx + 1
    /\ UNCHANGED <<pc, df, delta, main, i, phase, closed, engine, errors, result, now,
                   deltaKeyed, response, csv_file, loaded, hist>>

\* the end of process_records: the statistics are logged, unknown_zips is
\* written out, records is returned; the locals go out of scope
process_records_return ==
    /\ UNCHANGED other_vars
    /\ pc = "rows"
    /\ idx = Len(df)
    /\ pc' = "check_records"
    /\ df' = <<>>
    /\ idx' = 0
    /\ skipped_stats' = EmptyStats
    /\ UNCHANGED <<records, delta, main, i, stats, phase, closed, engine, errors, result,
                   now, deltaKeyed, response, csv_file, loaded, hist>>

\* run(): if not records: log a warning, return True
run_check_records ==
    /\ UNCHANGED other_vars
    /\ pc = "check_records"
    /\ IF records = <<>>
       THEN /\ result' = "True"
            /\ pc' = "finished"
       ELSE /\ pc' = "upload_records"
            /\ UNCHANGED result
    /\ UNCHANGED <<df, idx, records, skipped_stats, delta, main, i, stats, phase,
                   closed, engine, errors, now, deltaKeyed, response, csv_file, loaded, hist>>

\* upload_records, an exception reaching its outer except clause:
\* log_error(e, "Uploading records"), return False; run() then raises
UploadFails ==
    RunFails(log_error(stats, "Uploading records"),
             Append(errors, <<"Uploading records">>))

\* a KeyboardInterrupt passes every `except Exception` and leaves run()
Interrupted ==
    /\ result' = "KeyboardInterrupt"
    /\ pc' = "finished"
    /\ UNCHANGED <<phase, stats, errors>>

\* upload_records up to the batch loop: set_phase('UPLOAD') and, with
\* use_delta_table, clear_delta_table(), whose session may raise
upload_records_begin ==
    /\ UNCHANGED other_vars
    /\ pc = "upload_records"
    /\ use_delta_table
    /\ i' = 0
    /\ \E fault \in {<<0, "none">>, <<1, "error">>} :
          LET cleared == IF fault[1] = 0
                         THEN Commit(delta, clear_delta_table(delta))
                         ELSE Rollback(delta, clear_delta_table(delta))
          IN  /\ delta' = cleared
              /\ hist' = [hist EXCEPT !.uploaded = TRUE,
                                      !.all_inserted = (fault[1] = 0),
                                      !.steps = Enter(hist, "stage"),
                                      !.stale = StaleAfter(hist, cleared),
                                      !.injected = @ \/ fault[1] # 0,
                                      !.session = IF fault[1] = 0 THEN Committed
                                                  ELSE RolledBack]
              /\ IF fault[1] = 0
                 THEN /\ phase' = "UPLOAD"
                      /\ pc' = "batches"
                      /\ UNCHANGED <<stats, errors, result>>
                 ELSE UploadFails
    /\ UNCHANGED <<df, idx, records, skipped_stats, main, closed, engine, now, deltaKeyed, response, csv_file, loaded>>

\* LoopEnded as a faulty variant: the loop stops after its first batch
LoopEnded_after_first(at, recs) == at > 0

\* range(0, len(records), batch_size) is exhausted at offset `at`
LoopEnded(at, recs) == at >= Len(recs)

\* batch = records[i:i + batch_size]
Batch(recs, at) == SubSeq(recs, at + 1, Min(at + db_batch_size, Len(recs)))

\* one iteration of `for i in range(0, len(records), batch_size)`:
\* bulk_insert the batch; on an exception log it with the batch's index and
\* count the batch as failed; either way go on with the next batch
upload_batch ==
    /\ UNCHANGED other_vars
    /\ pc = "batches"
    /\ ~LoopEnded(i, records)
    /\ LET batch == Batch(records, i)
       IN  \E fault \in Faults(NumChunks(batch)) :
              LET r == bulk_insert(deltaKeyed, delta, batch, fault)
              IN  /\ delta' = r.table
                  /\ hist' = [hist EXCEPT !.all_inserted = @ /\ r.outcome = "ok",
                                          !.steps = Enter(hist, "stage"),
                                          !.stale = StaleAfter(hist, r.table),
                                          !.injected = @ \/ fault[1] # 0,
                                          !.session = r.calls]
                  /\ CASE r.outcome = "ok" ->
                            /\ stats' = [stats EXCEPT
                                            !.uploaded_records = @ + Len(batch)]
                            /\ i' = i + db_batch_size
                            /\ UNCHANGED <<pc, phase, errors, result>>
                       [] r.outcome = "error" ->
                            /\ stats' = [log_error(stats, "Batch upload at index")
                                            EXCEPT !.failed_records = @ + Len(batch)]
                            /\ errors' = Append(errors, <<"Batch upload at index", i>>)
                            /\ i' = i + db_batch_size
                            /\ UNCHANGED <<pc, phase, result>>
                       [] r.outcome = "interrupt" ->
                            /\ Interrupted
                            /\ i' = i
    /\ UNCHANGED <<df, idx, records, skipped_stats, main, closed, engine, now, deltaKeyed, response, csv_file, loaded>>

\* after the loop: merge_delta_to_main() and return True; when the merge
\* raises, upload_records returns False
upload_merge ==
    /\ UNCHANGED other_vars
    /\ pc = "batches"
    /\ LoopEnded(i, records)
    /\ use_delta_table
    /\ \E fault \in Faults(Len(delta)), dflt \in {0, now} :
          LET r == merge_delta_to_main(main, delta, now, dflt, fault)
          IN  /\ main' = r.table
              /\ hist' = [hist EXCEPT !.merged = IF r.outcome = "error"
                                                 THEN "failed"
                                                 ELSE IF r.outcome = "interrupt"
                                                 THEN "interrupted" ELSE "ok",
                                      !.before = main,
                                      !.steps = Enter(hist, "merge"),
                                      !.injected = @ \/ fault[1] # 0,
                                      !.session = r.calls]
              /\ CASE r.outcome = "ok" ->
                            /\ pc' = "cleanup"
                            /\ UNCHANGED <<stats, phase, errors, result>>
                   [] r.outcome = "error" -> UploadFails
                   [] r.outcome = "interrupt" -> Interrupted
    /\ UNCHANGED <<df, idx, records, skipped_stats, delta, i, closed, engine, now, deltaKeyed, response, csv_file, loaded>>

\* run(), the last lines: set_phase('CLEANUP'), db.close(),
\* progress.complete(), return True
run_cleanup ==
    /\ UNCHANGED other_vars
    /\ pc = "cleanup"
    /\ closed' = TRUE
    /\ engine' = dispose(engine)
    /\ phase' = "COMPLETE"
    /\ result' = "True"
    /\ pc' = "finished"
    /\ UNCHANGED <<df, idx, records, skipped_stats, delta, main, i, stats, errors,
                   now, deltaKeyed, response, csv_file, loaded, hist>>

\* main(): sys.exit(0 if success else 1). The collector and its progress
\* object are gone; the tables stay. hist keeps what the run's upload did.
collector_exit ==
    /\ UNCHANGED other_vars
    /\ pc = "finished"
    /\ pc' = "idle"
    /\ records' = <<>>
    /\ i' = 0
    /\ stats' = NewStats
    /\ phase' = "INIT"
    /\ closed' = FALSE
    /\ engine' = "none"
    /\ errors' = <<>>
    /\ result' = "none"
    /\ hist' = IF ~hist.uploaded
               THEN [NoHist EXCEPT !.records = hist.records, !.ok = hist.ok,
                                   !.main = hist.main]
               ELSE IF hist.all_inserted /\ hist.merged = "ok"
               THEN [NoHist EXCEPT !.records = records, !.ok = TRUE, !.main = main]
               ELSE NoHist
    /\ loaded' = {}
    /\ response' = NoResponse
    /\ csv_file' = None
    /\ UNCHANGED <<df, idx, skipped_stats, delta, main, now, deltaKeyed>>

Next ==
    \/ run_start
    \/ run_test_connection
    \/ run_load_mappings
    \/ fetch_data_post
    \/ run_fetch_data
    \/ process_records_begin
    \/ process_row
    \/ process_records_return
    \/ run_check_records
    \/ upload_records_begin
    \/ upload_batch
    \/ upload_merge
    \/ run_cleanup
    \/ collector_exit

Spec == Init /\ [][Next]_vars

---------------------------------------------------------------------------
(* process_records on its own, over a wider set of raw rows *)

ResolveZips == {NaN, "94101", "94101-1234", "99999", "95000"}
ResolveLicenses == {NaN, "  ", "A100", "9nAn"}

\* rows of a file that has a LicenseNo column
ResolveRows ==
    {[ZIPCode |-> z, LicenseNo |-> l, PrimaryStatus |-> "CLEAR"] :
        z \in ResolveZips, l \in ResolveLicenses}

\* rows of a file without a LicenseNo column: row['LicenseNo'] raises
ResolveRowsNoLicenseColumn ==
    {[ZIPCode |-> z, LicenseNo |-> Absent, PrimaryStatus |-> "CLEAR"] :
        z \in ResolveZips}

\* process_records entered with the file read, at the head of its loop
InitResolve ==
    /\ OthersIdle
    /\ pc = "rows"
    /\ df \in SeqsUpTo(ResolveRows, MaxRows)
                \cup SeqsUpTo(ResolveRowsNoLicenseColumn, MaxRows)
    /\ idx = 0
    /\ records = <<>>
    /\ skipped_stats = EmptyStats
    /\ delta = <<>>
    /\ main = {}
    /\ i = 0
    /\ stats = [NewStats EXCEPT !.total_records = Len(df)]
    /\ phase = "PROCESS"
    /\ closed = FALSE
    /\ engine = "pooled"
    /\ errors = <<>>
    /\ result = "none"
    /\ now = 1
    /\ deltaKeyed = FALSE
    /\ loaded = BothTables
    /\ response = NoResponse
    /\ csv_file = CsvHeader
    /\ hist = [NoHist EXCEPT !.steps = <<"fetch", "resolve">>]

NextResolve ==
    \/ process_row
    \/ process_records_return

SpecResolve == InitResolve /\ [][NextResolve]_vars

---------------------------------------------------------------------------
(* process_records over rows that all resolve and differ in the fields the
   derived values must not depend on *)

MaxPair == 2        \* longest DataFrame of rows compared with each other

\* a URL the source file may carry in a column of its own
RawUrl == "http://licensee.example/page"

\* rows that resolve: two spellings of one postal code and another postal
\* code, two licenses, with and without a URL column value, two statuses
DeriveRows ==
    {[ZIPCode |-> z, LicenseNo |-> l, PrimaryStatus |-> st, Website |-> w] :
        z \in {"94101", "94101-1234", "90001"}, l \in {"A100", "B200"},
        st \in {"CLEAR", "Expired"}, w \in {NaN, RawUrl}}

InitDerive ==
    /\ OthersIdle
    /\ pc = "rows"
    /\ df \in SeqsUpTo(DeriveRows, MaxPair)
    /\ idx = 0
    /\ records = <<>>
    /\ skipped_stats = EmptyStats
    /\ delta = <<>>
    /\ main = {}
    /\ i = 0
    /\ stats = [NewStats EXCEPT !.total_records = Len(df)]
    /\ phase = "PROCESS"
    /\ closed = FALSE
    /\ engine = "pooled"
    /\ errors = <<>>
    /\ result = "none"
    /\ now = 1
    /\ deltaKeyed = FALSE
    /\ loaded = BothTables
    /\ response = NoResponse
    /\ csv_file = CsvHeader
    /\ hist = [NoHist EXCEPT !.steps = <<"fetch", "resolve">>]

SpecDerive == InitDerive /\ [][NextResolve]_vars

---------------------------------------------------------------------------
(* Vocabulary of the claims about resolution *)

\* the lookup key of a raw row: the first 5 characters of its postal code,
\* empty when the postal code is missing
ZipKey(row) == IF row.ZIPCode = NaN THEN "" ELSE Prefix(row.ZIPCode, ZipKeyLen)

\* the postal code of the row is not a key of postalToAffiliate
ZipMiss(row) == ZipKey(row) \notin DOMAIN zip_to_bbb

\* the row's affiliate and agency are both found
AgencyResolves(row) ==
    /\ ~ZipMiss(row)
    /\ zip_to_bbb[ZipKey(row)] \in DOMAIN bbb_to_agency

\* the license number is missing or blank
BlankLicense(row) ==
    \/ row.LicenseNo \in {NaN, Absent}
    \/ \A k \in 1..Len(row.LicenseNo) : SubSeq(row.LicenseNo, k, k) = " "

\* the row passes every check of resolution
FullyResolves(row) ==
    /\ AgencyResolves(row)
    /\ ~BlankLicense(row)
    /\ LET id == bbb_to_agency[zip_to_bbb[ZipKey(row)]] \o row.LicenseNo
       IN  ~Contains(id, "None") /\ ~Contains(lower(id), "nan")

\* the loop of process_records has iterated every row
LoopDone == pc = "rows" /\ idx = Len(df)

\* row k is the only row with a blank or missing license; the others resolve
OnlyBlankLicense(k) ==
    /\ BlankLicense(df[k])
    /\ \A j \in 1..Len(df) : j # k => FullyResolves(df[j])

\* the rows iterated so far whose postal code misses postalToAffiliate
MissRows == {k \in 1..idx : ZipMiss(df[k])}

\* a miss emits no record and counts one no_bbb_id (no_affiliate) each
MissesAreSkips ==
    /\ skipped_stats.no_bbb_id = Cardinality(MissRows)
    /\ Len(records) + Cardinality(MissRows) <= idx
    /\ \A r \in 1..Len(records) :
          records[r].zip # NaN /\ Prefix(records[r].zip, ZipKeyLen) \in DOMAIN zip_to_bbb

---------------------------------------------------------------------------
(* Claims about resolution (checked under SpecResolve) *)

\* C9 as stated: whenever exactly one row k of N has a blank or missing
\* license number and every other row resolves, process_records ends with
\* N-1 records and exactly one invalid_license skip.
C9_AsStated ==
    LoopDone =>
        \A k \in 1..Len(df) :
            OnlyBlankLicense(k) =>
                /\ Len(records) = Len(df) - 1
                /\ skipped_stats.invalid_license = 1

\* C9, amended: every row iterated so far is either a record or one counted
\* skip (no row is lost to an exception, the loop goes on), and whenever
\* exactly one row k of N has a blank or missing license number, the
\* affiliate and agency of row k are found, and every other row resolves, the
\* loop ends with N-1 records, exactly one invalid_license skip and no other
\* skip.
C9_SkipNeverAborts ==
    /\ pc = "rows" =>
          /\ idx <= Len(df)
          /\ Len(records) + skipped_stats.no_bbb_id + skipped_stats.no_agency_id
                + skipped_stats.invalid_license = idx
    /\ LoopDone =>
          \A k \in 1..Len(df) :
              (OnlyBlankLicense(k) /\ AgencyResolves(df[k])) =>
                  /\ Len(records) = Len(df) - 1
                  /\ skipped_stats.invalid_license = 1
                  /\ skipped_stats.no_bbb_id = 0
                  /\ skipped_stats.no_agency_id = 0

\* C9 witness: three rows iterated, the middle one with a license of blanks
\* and a known agency, two records returned
C9_Witness ==
    /\ LoopDone
    /\ Len(df) = 3
    /\ OnlyBlankLicense(2)
    /\ AgencyResolves(df[2])
    /\ df[2].LicenseNo = "  "
    /\ Len(records) = 2

\* C10 as stated: every row whose postal code (first 5 characters, possibly
\* empty or missing) is not a key of postalToAffiliate emits no record,
\* counts one no_affiliate skip, and its postal code is in unknown_zips.
C10_AsStated ==
    pc = "rows" =>
        /\ MissesAreSkips
        /\ \A k \in MissRows : ZipKey(df[k]) \in skipped_stats.unknown_zips

\* C10, amended: every row whose postal code (first 5 characters, possibly
\* empty or missing) is not a key of postalToAffiliate emits no record and
\* counts one no_affiliate skip; its postal code is in unknown_zips unless
\* it is empty or missing.
C10_LookupMissIsSkip ==
    pc = "rows" =>
        /\ MissesAreSkips
        /\ \A k \in MissRows :
              ZipKey(df[k]) # "" => ZipKey(df[k]) \in skipped_stats.unknown_zips
        /\ "" \notin skipped_stats.unknown_zips

\* C10 witness: the loop is done, one row missed with postal code 99999 and
\* one with a missing postal code
C10_Witness ==
    /\ LoopDone
    /\ \E k \in MissRows : ZipKey(df[k]) = "99999"
    /\ \E k \in MissRows : df[k].ZIPCode = NaN
    /\ skipped_stats.unknown_zips = {"99999"}

---------------------------------------------------------------------------
(* Vocabulary of the claims about staging and merge *)

\* the merged columns of the rows of bbb_uploaded_data (updated_at left out)
ColumnsOf(rows) == {Columns(m) : m \in rows}

\* the rows with identity u
RowsWith(rows, u) == {m \in rows : m.uuid = u}

\* the batch offsets for which a batch failure was logged
FailedIndexes(errs) ==
    {errs[k][2] : k \in {n \in 1..Len(errs) : errs[n][1] = "Batch upload at index"}}

\* the rows of the batches, from offset b up to offset `upto`, that were
\* not reported as failed, in order
RECURSIVE StagedBatches(_, _, _, _)
StagedBatches(recs, b, upto, failed) ==
    IF b >= upto THEN <<>>
    ELSE (IF b \in failed THEN <<>> ELSE Batch(recs, b))
            \o StagedBatches(recs, b + db_batch_size, upto, failed)

\* the number of records in batches reported as failed
RECURSIVE FailedRows(_, _, _)
FailedRows(recs, b, failed) ==
    IF b >= Len(recs) THEN 0
    ELSE (IF b \in failed THEN Len(Batch(recs, b)) ELSE 0)
            + FailedRows(recs, b + db_batch_size, failed)

IsPrefix(p, q) == Len(p) <= Len(q) /\ p = SubSeq(q, 1, Len(p))

PhaseOrder == <<"fetch", "resolve", "stage", "merge">>

\* this run called upload_records with the records of the previous upload,
\* which had inserted every batch and merged, and has ended
SecondUpload ==
    /\ pc = "finished"
    /\ hist.uploaded
    /\ hist.ok
    /\ records = hist.records

---------------------------------------------------------------------------
(* Claims about staging and merge (checked under Spec) *)

\* C1 as stated: after upload_records ran twice in succession with the same
\* records, bbb_uploaded_data has the content it had after the first run.
C1_AsStated == SecondUpload => main = hist.main

\* C1, amended: after upload_records ran a second time with the records of a
\* first run that inserted every batch and merged, bbb_uploaded_data has the
\* same rows with the same values in every column the merge copies from
\* staging as after the first run; only updated_at may differ.
C1_MergeIdempotent ==
    SecondUpload =>
        /\ ColumnsOf(main) = ColumnsOf(hist.main)
        /\ Cardinality(main) = Cardinality(hist.main)

\* C1 witness: the second run inserted every batch and merged two records
\* or more, and a merged row carries the second run's timestamp
C1_Witness ==
    /\ SecondUpload
    /\ hist.all_inserted
    /\ hist.merged = "ok"
    /\ Len(records) >= 2
    /\ \E m \in main : m.updated_at = now /\ m \notin hist.main

\* C2: once a merge has committed, every staged identity that had a row in
\* bbb_uploaded_data before the merge has exactly the staged row's values
\* in every merged column (nothing of the old row is kept).
C2_MergeOverwrite ==
    pc = "cleanup" =>
        \A k \in 1..Len(delta) :
            (\E m \in hist.before : m.uuid = delta[k].uuid) =>
                ColumnsOf(RowsWith(main, delta[k].uuid)) = {Columns(delta[k])}

\* C2 witness: the merge met a row of the same identity with another status
C2_Witness ==
    /\ pc = "cleanup"
    /\ \E k \in 1..Len(delta) : \E m \in hist.before :
          m.uuid = delta[k].uuid /\ m.license_status # delta[k].license_status

\* C3: bbb_uploaded_data never holds two rows of one identity, and once a
\* merge has committed it holds exactly one row for each staged identity.
C3_OneRowPerIdentity ==
    /\ \A a, b \in main : a.uuid = b.uuid => a = b
    /\ pc = "cleanup" =>
          \A k \in 1..Len(delta) : Cardinality(RowsWith(main, delta[k].uuid)) = 1

\* C3 witness: second run, with rows of an earlier run found in staging; a
\* batch failed, the rest was merged, the table holds two rows or more
C3_Witness ==
    /\ pc = "cleanup"
    /\ now = 2
    /\ hist.stale0 > 0
    /\ FailedIndexes(errors) # {}
    /\ delta # <<>>
    /\ Cardinality(main) >= 2

\* C4 as stated: when the merge fails or is interrupted, bbb_uploaded_data is
\* as it was when the merge began and run() returns False.
C4_AsStated ==
    hist.merged \in {"failed", "interrupted"} =>
        /\ main = hist.before
        /\ pc = "finished"
        /\ result = "False"

\* every staged identity has exactly the staged row's values
AllStagedMerged ==
    \A k \in 1..Len(delta) :
        ColumnsOf(RowsWith(main, delta[k].uuid)) = {Columns(delta[k])}

\* C4, amended: when the merge raises an exception, bbb_uploaded_data is as
\* it was when the merge began and run() returns False; when the operator
\* interrupts the merge, bbb_uploaded_data is as it was when the merge began
\* or holds every staged row (never a part of them), and the
\* KeyboardInterrupt leaves run() instead of run() returning False.
C4_MergeAllOrNothing ==
    /\ hist.merged = "failed" =>
          /\ main = hist.before
          /\ pc = "finished"
          /\ result = "False"
          /\ phase = "ERROR"
    /\ hist.merged = "interrupted" =>
          /\ main = hist.before \/ AllStagedMerged
          /\ pc = "finished"
          /\ result = "KeyboardInterrupt"

\* C4 witness: a merge of two staged rows of different identities, at least
\* one of them new to bbb_uploaded_data, has failed
C4_Witness ==
    /\ hist.merged = "failed"
    /\ Len(delta) >= 2
    /\ ~HasDuplicateUuid(delta)
    /\ \E k \in 1..Len(delta) : RowsWith(main, delta[k].uuid) = {}

\* C5 as stated: a run that has inserted into staging holds no row staged by
\* an earlier run, and no run ends with rows staged by an earlier run.
C5_AsStated ==
    /\ Len(delta) > hist.stale => hist.stale = 0
    /\ pc = "finished" => hist.stale = 0

\* C5, amended: a run that uploads at least one record clears staging before
\* it inserts anything, so its inserts and its merge never meet rows staged
\* by an earlier run; a run that ends before the upload, or whose clearing
\* fails, leaves the rows staged by the earlier run as they were.
C5_StagingCleared ==
    /\ Len(delta) > hist.stale => hist.stale = 0
    /\ pc \in {"batches", "cleanup"} => hist.stale = 0
    /\ hist.merged # "no" => hist.stale = 0
    /\ hist.stale > 0 => hist.stale = hist.stale0 /\ Len(delta) = hist.stale0

\* C5 witness: a run that began with staged rows of an earlier run has
\* cleared them and staged rows of its own
C5_Witness ==
    /\ pc = "batches"
    /\ hist.stale0 > 0
    /\ hist.stale = 0
    /\ delta # <<>>

\* C6 as stated: the phases are entered in the order fetch, resolve, stage,
\* merge, and the merge executes only with every record of the run staged.
C6_AsStated ==
    /\ IsPrefix(hist.steps, PhaseOrder)
    /\ hist.merged # "no" => delta = records

\* C6, amended: the phases are entered in the order fetch, resolve, stage,
\* merge, and the merge executes only when every batch has been attempted;
\* staging then holds the records of the batches that were inserted, which
\* is every record only if no batch failed.
C6_PhaseOrder ==
    /\ IsPrefix(hist.steps, PhaseOrder)
    /\ hist.merged # "no" =>
          /\ i >= Len(records)
          /\ Len(delta) + FailedRows(records, 0, FailedIndexes(errors)) = Len(records)
          /\ \A k \in 1..Len(delta) : \E r \in 1..Len(records) : delta[k] = records[r]
          /\ hist.all_inserted => delta = records

\* C6 witness: a merge committed with part of the run's records staged
C6_Witness ==
    /\ hist.merged = "ok"
    /\ delta # <<>>
    /\ Len(delta) < Len(records)

\* C7: during and after the batch loop, staging holds exactly the rows of
\* the batches not reported as failed (no row of a failed batch remains),
\* each failure is logged with its batch offset, and the loop runs to the
\* last batch whatever failed before.
C7_BatchFailureIsolated ==
    pc \in {"batches", "cleanup"} =>
        /\ delta = StagedBatches(records, 0, Min(i, Len(records)), FailedIndexes(errors))
        /\ stats.uploaded_records = Len(delta)
        /\ pc = "cleanup" => i >= Len(records)
        /\ pc = "batches" => ENABLED (upload_batch \/ upload_merge)

\* C7 witness: the first batch of two records failed, the second batch was
\* then inserted
C7_Witness ==
    /\ pc = "batches"
    /\ Len(records) = 3
    /\ i >= Len(records)
    /\ FailedIndexes(errors) = {0}
    /\ delta = <<records[3]>>

\* C8 as stated: when two rows of a run resolve to the same identity and
\* nothing outside the collector fails, the run succeeds without a staging
\* or merge failure and bbb_uploaded_data holds exactly one row for that
\* identity, with the values of the later row.
C8_AsStated ==
    (pc = "finished" /\ ~hist.injected) =>
        \A a, b \in 1..Len(records) :
            (a < b /\ records[a].uuid = records[b].uuid
                   /\ \A c \in (b + 1)..Len(records) : records[c].uuid # records[b].uuid) =>
                /\ result = "True"
                /\ errors = <<>>
                /\ ColumnsOf(RowsWith(main, records[b].uuid)) = {Columns(records[b])}

---------------------------------------------------------------------------
(* Claims about the records process_records emits (checked under SpecResolve) *)

\* what the claims expect of a row that resolves: affiliate a, agency g,
\* license number L and identity g directly followed by L
ExpectedOf(row) ==
    LET a == zip_to_bbb[ZipKey(row)]
        g == bbb_to_agency[a]
    IN  [bbb_id |-> a, agency_id |-> g, license_nbr |-> row.LicenseNo,
         uuid |-> g \o row.LicenseNo]

\* the same four fields of an emitted record
Resolved(rec) ==
    [bbb_id |-> rec.bbb_id, agency_id |-> rec.agency_id,
     license_nbr |-> rec.license_nbr, uuid |-> rec.uuid]

\* the expected records of the rows 1..k that resolve, in source order
RECURSIVE ExpectedRecords(_)
ExpectedRecords(k) ==
    IF k = 0 THEN <<>>
    ELSE IF FullyResolves(df[k])
    THEN Append(ExpectedRecords(k - 1), ExpectedOf(df[k]))
    ELSE ExpectedRecords(k - 1)

\* C11: the rows iterated so far whose postal code maps to an affiliate a,
\* whose affiliate maps to an agency g and whose license number L is not
\* blank (g followed by L holding no null marker) have each emitted exactly
\* one record, with affiliate a, agency g, license number L and identity g
\* directly followed by L; no other row has emitted a record.
C11_ResolutionResult ==
    pc = "rows" =>
        /\ Len(records) = Len(ExpectedRecords(idx))
        /\ \A r \in 1..Len(records) : Resolved(records[r]) = ExpectedRecords(idx)[r]

\* C11 witness: the row of the example (postal code 94101-1234 truncated to
\* 94101, license A100) has emitted the record with identity 117A100, after
\* a row that did not resolve
C11_Witness ==
    /\ LoopDone
    /\ Len(df) = 2
    /\ ~FullyResolves(df[1])
    /\ df[2].ZIPCode = "94101-1234"
    /\ Len(records) = 1
    /\ Resolved(records[1]) = [bbb_id |-> "1116", agency_id |-> "117",
                               license_nbr |-> "A100", uuid |-> "117A100"]

---------------------------------------------------------------------------
(* Claims about derived fields (checked under SpecDerive, where every row
   resolves, so that records[k] is the record of df[k]) *)

\* every row iterated so far has emitted its record
RecordPerRow == Len(records) = idx

\* C12: the agency_url of every emitted record is the fixed template
\* followed by the row's license number, and two rows with the same license
\* number get the same agency_url whatever their postal code, status and
\* URL column hold.
C12_UrlDerivationPure ==
    pc = "rows" =>
        /\ RecordPerRow
        /\ \A k \in 1..idx : records[k].agency_url = UrlTemplate \o df[k].LicenseNo
        /\ \A j, k \in 1..idx :
              df[j].LicenseNo = df[k].LicenseNo =>
                  records[j].agency_url = records[k].agency_url

\* C12 witness: two rows of one license, one carrying a URL of its own and
\* the other none, with different postal codes, have the same agency_url
C12_Witness ==
    /\ LoopDone
    /\ Len(df) = 2
    /\ df[1].LicenseNo = df[2].LicenseNo
    /\ df[1].Website = RawUrl
    /\ df[2].Website = NaN
    /\ df[1].ZIPCode # df[2].ZIPCode
    /\ Len(records) = 2
    /\ records[1].agency_url = records[2].agency_url

\* C13: two rows that resolve to the same agency_id and carry the same
\* license number get the same uuid, whatever their other fields hold and
\* wherever they stand in the input.
C13_IdentityDeterminism ==
    pc = "rows" =>
        /\ RecordPerRow
        /\ \A j, k \in 1..idx :
              (records[j].agency_id = records[k].agency_id
                    /\ df[j].LicenseNo = df[k].LicenseNo) =>
                  records[j].uuid = records[k].uuid

\* C13 witness: two rows of one agency and license that differ in postal
\* code spelling, status and URL column have the same uuid
C13_Witness ==
    /\ LoopDone
    /\ Len(df) = 2
    /\ df[1].LicenseNo = df[2].LicenseNo
    /\ df[1].ZIPCode = "94101-1234"
    /\ df[2].ZIPCode = "94101"
    /\ df[1].PrimaryStatus # df[2].PrimaryStatus
    /\ df[1].Website # df[2].Website
    /\ Len(records) = 2
    /\ records[1].agency_id = records[2].agency_id
    /\ records[1].uuid = records[2].uuid

---------------------------------------------------------------------------
(* Claims about failures of the run (checked under Spec) *)

\* load_mappings returned False in this step
MappingLoadFailed == pc = "load_mappings" /\ loaded' # BothTables

\* C14: when a mapping file is absent (load_mappings returns with a table
\* unfilled), that very step ends the run with False, with the delta table
\* and bbb_uploaded_data as they were, no record resolved and the fetch
\* never entered; the fetch and the resolution are only ever reached with
\* both tables filled.
C14_MissingMappingFailsFast ==
    /\ [][MappingLoadFailed =>
             /\ pc' = "finished"
             /\ result' = "False"
             /\ delta' = delta
             /\ main' = main
             /\ records' = <<>>
             /\ hist'.steps = <<>>]_vars
    /\ [](pc \in {"fetch_data", "fetch_decode", "process_records", "rows"} => loaded = BothTables)
    /\ []((pc = "finished" /\ loaded # BothTables) =>
             /\ result = "False"
             /\ records = <<>>
             /\ hist.steps = <<>>
             /\ ~hist.uploaded)

\* C14 witness: the run ended because the agency file was absent, after the
\* ZIP table had been filled
C14_Witness ==
    /\ pc = "finished"
    /\ loaded = {"zip_to_bbb"}
    /\ result = "False"
    /\ errors = << <<"Main execution">> >>
    /\ hist.steps = <<>>

---------------------------------------------------------------------------
(* Claims about fetch_data (checked under Spec) *)

\* the body of the response is the expected prefix, a content and the
\* expected suffix
FramingMatches(resp) ==
    LET c == resp.content
    IN  /\ Len(c) >= Len(EnvelopePrefix) + Len(EnvelopeSuffix)
        /\ SubSeq(c, 1, Len(EnvelopePrefix)) = EnvelopePrefix
        /\ SubSeq(c, Len(c) - Len(EnvelopeSuffix) + 1, Len(c)) = EnvelopeSuffix

\* fetch_data is about to decode a response that arrived in another envelope
DecodesForeignEnvelope ==
    /\ pc = "fetch_decode"
    /\ response.transport = "ok"
    /\ ~FramingMatches(response)

\* C15 as stated: whenever the envelope of the response does not match the
\* expected prefix and suffix, fetch_data returns no payload location, and
\* the failure is logged as a decode failure ("Fetching data"), not as a
\* transport failure ("API request failed").
C15_AsStated ==
    [][DecodesForeignEnvelope =>
          /\ Falsy(csv_file')
          /\ errors' = Append(Append(errors, <<"Fetching data">>), <<"Main execution">>)]_vars

---------------------------------------------------------------------------
(* C16: failures of a source or of the merge and what run() returns *)

\* the contexts under which the failure of a whole step is logged: the
\* request, the decoding of the payload, the reading of the payload by
\* process_records, and upload_records (the clearing of the delta table
\* and the merge)
StepFailureContexts ==
    {"Loading mappings", "API request failed", "Fetching data",
     "Processing records", "Uploading records"}

\* the run went past the connection test and one of its steps failed as a
\* whole: load_mappings left a table unfilled, or a step logged its failure
StepFailed ==
    \/ engine # "created" /\ pc = "finished" /\ loaded # BothTables
    \/ \E k \in 1..Len(errors) : errors[k][1] \in StepFailureContexts

\* C16, as stated: when the run has returned, it returned False if the
\* mapping load, the fetch, the reading of the payload as a whole, the
\* clearing of the staging table or the merge failed, and it returned True
\* only if none of them failed.
C16_AsStated ==
    pc = "finished" =>
        /\ StepFailed => result = "False"
        /\ result = "True" => ~StepFailed

---------------------------------------------------------------------------
(* C17: the database handle is released however the run ends *)

\* test_connection succeeded in this run: the engine took a connection,
\* which it holds in its pool until db.close() disposes of it
ConnectionAcquired == engine \in {"pooled", "disposed"}

\* C17, as stated: on every path on which run() ends after the database
\* connection was acquired (success, the early return with no valid
\* record, every failure), db.close() has been called.
C17_AsStated ==
    (pc = "finished" /\ ConnectionAcquired) => closed /\ engine = "disposed"

---------------------------------------------------------------------------
(* C18: a run that returns True ends with the summary *)

\* C18, as stated: whenever run() has returned True, also when no row was
\* valid and when some batches failed, progress.complete() was called
\* before the return: the phase is COMPLETE.
C18_AsStated ==
    (pc = "finished" /\ result = "True") => phase = "COMPLETE"

---------------------------------------------------------------------------
(* C19: an operator interrupt while the batches are staged *)

\* the step is a batch of the staging loop ended by a KeyboardInterrupt
BatchInterrupted ==
    /\ pc = "batches"
    /\ ~LoopEnded(i, records)
    /\ result' = "KeyboardInterrupt"

\* the run was interrupted while staging (the merge was not begun)
InterruptedWhileStaging ==
    result = "KeyboardInterrupt" /\ hist.merged = "no"

---------------------------------------------------------------------------
(* upload_records on its own, over lists of canonical records of several
   batches *)

MaxStaged == 3      \* longest list of records handed to upload_records

\* raw rows of three licenses, one of them in two rows of different status
OrderRows ==
    {[ZIPCode |-> "94101", LicenseNo |-> "A", PrimaryStatus |-> "CLEAR"],
     [ZIPCode |-> "94101", LicenseNo |-> "A", PrimaryStatus |-> "Expired"],
     [ZIPCode |-> "90001", LicenseNo |-> "B", PrimaryStatus |-> "CLEAR"],
     [ZIPCode |-> "94101", LicenseNo |-> "C", PrimaryStatus |-> "CLEAR"]}

\* the records process_records makes of them
OrderRecords == {ProcessRow(row).rec : row \in OrderRows}

\* run() about to call upload_records with the records process_records
\* returned
InitOrder ==
    /\ OthersIdle
    /\ pc = "upload_records"
    /\ df = <<>>
    /\ idx = 0
    /\ records \in SeqsUpTo(OrderRecords, MaxStaged) \ {<<>>}
    /\ skipped_stats = EmptyStats
    /\ delta = <<>>
    /\ main \in InitialMains
    /\ i = 0
    /\ stats = [NewStats EXCEPT !.total_records = Len(records),
                                !.processed_records = Len(records)]
    /\ phase = "PROCESS"
    /\ closed = FALSE
    /\ engine = "pooled"
    /\ errors = <<>>
    /\ result = "none"
    /\ now = 1
    /\ deltaKeyed \in BOOLEAN
    /\ loaded = BothTables
    /\ response = NoResponse
    /\ csv_file = CsvHeader
    /\ hist = [NoHist EXCEPT !.steps = <<"fetch", "resolve">>]

NextOrder ==
    \/ upload_records_begin
    \/ upload_batch
    \/ upload_merge
    \/ run_cleanup

SpecOrder == InitOrder /\ [][NextOrder]_vars

---------------------------------------------------------------------------
(* C20: the order of the batches *)

\* the rearrangements of n positions
Perms(n) ==
    {p \in [1..n -> 1..n] : \A a, b \in 1..n : a # b => p[a] # p[b]}

\* number of iterations of `for i in range(0, len(records), batch_size)`
NumBatches(recs) == (Len(recs) + db_batch_size - 1) \div db_batch_size

\* the batches the loop of upload_records cuts a list into, in loop order
Batches(recs) ==
    [k \in 1..NumBatches(recs) |-> Batch(recs, (k - 1) * db_batch_size)]

\* every order of staging: the batches of the list in another order, and
\* the batches of the list with its records rearranged
Orders(recs) ==
    {[k \in 1..NumBatches(recs) |-> Batches(recs)[p[k]]] :
        p \in Perms(NumBatches(recs))}
    \cup {Batches([k \in 1..Len(recs) |-> recs[p[k]]]) : p \in Perms(Len(recs))}

\* the session of a statement that meets no failure from outside
NoFault == <<0, "none">>

\* the loop of upload_records over a list of batches from the k-th on: a
\* batch whose bulk_insert raises is left out, the loop goes on
RECURSIVE StageFrom(_, _, _, _)
StageFrom(keyed, table, batches, k) ==
    IF k > Len(batches) THEN table
    ELSE StageFrom(keyed, bulk_insert(keyed, table, batches[k], NoFault).table,
                   batches, k + 1)

\* upload_records: bbb_uploaded_data after the delta table was cleared, the
\* batches were staged in the given order and the merge ran
FinalStore(keyed, rows, staged, batches, ts, dflt) ==
    merge_delta_to_main(rows,
                        StageFrom(keyed, clear_delta_table(staged), batches, 1),
                        ts, dflt, NoFault).table

\* upload_records has ended and nothing failed from outside
UploadEnded ==
    /\ pc = "finished"
    /\ hist.uploaded
    /\ hist.merged # "no"
    /\ ~hist.injected

\* bbb_uploaded_data is what the given order of staging would have left
SameAsOrder(batches) ==
    \E dflt \in {0, now} :
        main = FinalStore(deltaKeyed, hist.before, <<>>, batches, now, dflt)

---------------------------------------------------------------------------
(* C21: bbb_uploaded_data changes only by the merge, and only grows or
   updates *)

\* the step is the merge statement of upload_records
MergeStep ==
    /\ pc = "batches"
    /\ LoopEnded(i, records)
    /\ hist'.steps = Enter(hist, "merge")

---------------------------------------------------------------------------
(* audit_cslb_logic.py: detection of CSLB records and the priority of URLs *)

\* cslb_mappings: the known pairs of BBB id and CSLB agency id
cslb_mappings ==
    [b \in {"1116", "1126", "1216", "1236"} |->
        CASE b = "1116" -> "117"
          [] b = "1126" -> "3888"
          [] b = "1216" -> "13"
          [] b = "1236" -> "2150"]

\* is_cslb_record as a faulty variant: a CSLB agency id is enough without
\* its BBB id
is_cslb_record_agency_alone(agency_name, bbb_id, agency_id) ==
    \/ /\ ~Falsy(agency_name)
       /\ \/ Contains(lower(str(agency_name)), "contractors state")
          \/ Contains(lower(str(agency_name)), "contactors state")
    \/ /\ ~Falsy(agency_id)
       /\ \E b \in DOMAIN cslb_mappings : cslb_mappings[b] = strip(str(agency_id))

\* is_cslb_record(agency_name, bbb_id, agency_id)
is_cslb_record(agency_name, bbb_id, agency_id) ==
    IF /\ ~Falsy(agency_name)
       /\ \/ Contains(lower(str(agency_name)), "contractors state")
          \/ Contains(lower(str(agency_name)), "contactors state")
    THEN TRUE
    ELSE LET bbb_id_str == IF ~Falsy(bbb_id) THEN strip(str(bbb_id)) ELSE ""
             agency_id_str == IF ~Falsy(agency_id) THEN strip(str(agency_id)) ELSE ""
         IN  IF bbb_id_str # "" /\ agency_id_str # ""
             THEN IF bbb_id_str \in DOMAIN cslb_mappings
                  THEN agency_id_str = cslb_mappings[bbb_id_str]
                  ELSE FALSE
             ELSE FALSE

\* the condition of each branch of determine_agency_url:
\* `url and len(str(url)) > 3 and url != 'None'`
UrlGiven(url) == ~Falsy(url) /\ Len(str(url)) > 3 /\ url # "None"

\* determine_agency_url as a faulty variant: the BBB URL comes first for
\* every record
determine_agency_url_bbb_first(bbb_url, db_agency_url, db_raw_url, agency_name, bbb_id, agency_id) ==
    IF UrlGiven(bbb_url) THEN bbb_url
    ELSE IF UrlGiven(db_raw_url) THEN db_raw_url
    ELSE IF UrlGiven(db_agency_url) THEN db_agency_url
    ELSE ""

\* determine_agency_url(bbb_url, db_agency_url, db_raw_url, agency_name,
\* bbb_id, agency_id)
determine_agency_url(bbb_url, db_agency_url, db_raw_url, agency_name, bbb_id, agency_id) ==
    IF is_cslb_record(agency_name, bbb_id, agency_id)
    THEN IF UrlGiven(db_agency_url) THEN db_agency_url
         ELSE IF UrlGiven(db_raw_url) THEN db_raw_url
         ELSE IF UrlGiven(bbb_url) THEN bbb_url
         ELSE ""
    ELSE IF UrlGiven(bbb_url) THEN bbb_url
         ELSE IF UrlGiven(db_raw_url) THEN db_raw_url
         ELSE IF UrlGiven(db_agency_url) THEN db_agency_url
         ELSE ""

\* arguments the two functions are tried with: names that match in either
\* spelling and case, names that do not; ids alone, paired, mismatched,
\* padded with blanks; URLs that are missing, empty, short, 'None', given
AuditNames ==
    {None, "", "Contractors State Licensing Board", "CONTACTORS STATE BOARD",
     "Department of Consumer Affairs", "State Contractors"}
AuditBbbIds == {None, "", "1116", " 1236 ", "1216", "9999"}
AuditAgencyIds == {None, "117", "2150", "13 ", "999"}
AuditBbbUrls == {None, "", "abc", "None", "https://business.example"}
AuditAgencyUrls == {None, "None", "x.y", "https://cslb.example/lic"}
AuditRawUrls == {None, "", "abcd", "https://raw.example"}

\* the collector is not running and bbb_uploaded_data holds `rows`
CollectorIdleWith(rows) ==
    /\ pc = "idle"
    /\ df = <<>>
    /\ idx = 0
    /\ records = <<>>
    /\ skipped_stats = EmptyStats
    /\ delta = <<>>
    /\ main = rows
    /\ i = 0
    /\ stats = NewStats
    /\ phase = "INIT"
    /\ closed = FALSE
    /\ engine = "none"
    /\ errors = <<>>
    /\ result = "none"
    /\ now = 0
    /\ deltaKeyed = FALSE
    /\ loaded = {}
    /\ response = NoResponse
    /\ csv_file = None
    /\ hist = NoHist

\* the collector is not running, bbb_uploaded_data is empty
CollectorIdle == CollectorIdleWith({})

\* the script before its first loop, with one test case at hand
InitAudit ==
    /\ CollectorIdle
    /\ UpdaterIdle
    /\ audit_pc = "detection_tests"
    /\ audit_case \in [agency_name : AuditNames, bbb_id : AuditBbbIds,
                       agency_id : AuditAgencyIds, bbb_url : AuditBbbUrls,
                       db_agency_url : AuditAgencyUrls, db_raw_url : AuditRawUrls]
    /\ audit_result = [is_cslb |-> FALSE, url |-> ""]

\* the body of `for ... in detection_tests`: result = is_cslb_record(...)
detection_test ==
    /\ audit_pc = "detection_tests"
    /\ audit_result' = [audit_result EXCEPT !.is_cslb =
            is_cslb_record(audit_case.agency_name, audit_case.bbb_id,
                           audit_case.agency_id)]
    /\ audit_pc' = "url_tests"
    /\ UNCHANGED <<collector_vars, updater_vars, audit_case>>

\* the body of `for ... in url_tests`: result = determine_agency_url(...)
url_test ==
    /\ audit_pc = "url_tests"
    /\ audit_result' = [audit_result EXCEPT !.url =
            determine_agency_url(audit_case.bbb_url, audit_case.db_agency_url,
                                 audit_case.db_raw_url, audit_case.agency_name,
                                 audit_case.bbb_id, audit_case.agency_id)]
    /\ audit_pc' = "summary"
    /\ UNCHANGED <<collector_vars, updater_vars, audit_case>>

NextAudit ==
    \/ detection_test
    \/ url_test

SpecAudit == InitAudit /\ [][NextAudit]_vars

---------------------------------------------------------------------------
(* C22: the priority of the URL candidates *)

\* a candidate is usable: not missing, not empty, longer than 3 characters,
\* not the string 'None'
Usable(c) == c # None /\ c # "" /\ Len(c) > 3 /\ c # "None"

\* the first usable candidate of a list, or the empty string
FirstUsable(cands) ==
    IF \E k \in 1..Len(cands) : Usable(cands[k])
    THEN cands[CHOOSE k \in 1..Len(cands) :
                 /\ Usable(cands[k])
                 /\ \A j \in 1..(k - 1) : ~Usable(cands[j])]
    ELSE ""

\* determine_agency_url has returned for the test case
UrlDetermined == audit_pc = "summary"

\* C22: determine_agency_url returns the first usable candidate in the
\* order db_agency_url, db_raw_url, bbb_url when is_cslb_record holds of
\* the record, in the order bbb_url, db_raw_url, db_agency_url when it
\* does not, and the empty string when no candidate is usable.
C22_UrlPriority ==
    UrlDetermined =>
        audit_result.url =
            IF audit_result.is_cslb
            THEN FirstUsable(<<audit_case.db_agency_url, audit_case.db_raw_url,
                               audit_case.bbb_url>>)
            ELSE FirstUsable(<<audit_case.bbb_url, audit_case.db_raw_url,
                               audit_case.db_agency_url>>)

\* a CSLB record whose agency URL is the string 'None' and whose raw URL
\* has four characters got the raw URL although a BBB URL was given
C22_Witness ==
    /\ UrlDetermined
    /\ audit_result.is_cslb
    /\ audit_case.db_agency_url = "None"
    /\ audit_case.db_raw_url = "abcd"
    /\ audit_case.bbb_url = "https://business.example"
    /\ audit_result.url = "abcd"

---------------------------------------------------------------------------
(* C23: which records are CSLB records *)

\* the known pairs (bbb_id, agency_id)
CslbPairs ==
    {<<"1116", "117">>, <<"1126", "3888">>, <<"1216", "13">>, <<"1236", "2150">>}

\* the agency name contains one of the two spellings, whatever its case
NameMatches(name) ==
    /\ name # None
    /\ \/ Contains(lower(name), "contractors state")
       \/ Contains(lower(name), "contactors state")

\* an id is present: given and not empty
Present(id) == id # None /\ id # ""

\* is_cslb_record has returned for the test case
Detected == audit_pc \in {"url_tests", "summary"}

\* C23: is_cslb_record is True exactly when the agency name contains
\* 'contractors state' or 'contactors state' in any case, or both ids are
\* present and, as strings without surrounding blanks, form one of the four
\* known pairs; without a matching name, an agency id alone, a BBB id alone
\* and a mismatched pair give False.
C23_CslbDetection ==
    Detected =>
        /\ audit_result.is_cslb <=>
              \/ NameMatches(audit_case.agency_name)
              \/ /\ Present(audit_case.bbb_id)
                 /\ Present(audit_case.agency_id)
                 /\ <<strip(audit_case.bbb_id), strip(audit_case.agency_id)>> \in CslbPairs
        /\ ~NameMatches(audit_case.agency_name) =>
              /\ ~Present(audit_case.bbb_id) => ~audit_result.is_cslb
              /\ ~Present(audit_case.agency_id) => ~audit_result.is_cslb
              /\ (Present(audit_case.bbb_id) /\ Present(audit_case.agency_id)
                    /\ <<strip(audit_case.bbb_id), strip(audit_case.agency_id)>> \notin CslbPairs)
                   => ~audit_result.is_cslb

\* a record without a name was detected by its pair of ids, written with
\* surrounding blanks
C23_Witness ==
    /\ Detected
    /\ audit_result.is_cslb
    /\ audit_case.agency_name = ""
    /\ audit_case.bbb_id = " 1236 "
    /\ audit_case.agency_id = "2150"

---------------------------------------------------------------------------
(* C24: every row is counted once (checked under SpecResolve) *)

\* the four outcomes of a row, as counted so far
Outcomes ==
    <<Len(records), skipped_stats.no_bbb_id, skipped_stats.no_agency_id,
      skipped_stats.invalid_license>>

\* processing the row raises: its affiliate and agency are found and
\* row['LicenseNo'] is a KeyError
RowRaises(row) == AgencyResolves(row) /\ row.LicenseNo = Absent

\* C24: every iteration of the loop adds one to exactly one of valid
\* records, no_bbb_id, no_agency_id and invalid_license, so that at the end
\* of N rows they add up to N; an iteration that raises adds one to
\* invalid_license, appends nothing, and the loop goes on with the next row.
C24_RowAccounting ==
    /\ [][idx' = idx + 1 =>
            \E c \in 1..4 : \A d \in 1..4 :
                Outcomes'[d] = Outcomes[d] + (IF d = c THEN 1 ELSE 0)]_vars
    /\ [](LoopDone =>
            Outcomes[1] + Outcomes[2] + Outcomes[3] + Outcomes[4] = Len(df))
    /\ [][(pc = "rows" /\ idx < Len(df) /\ RowRaises(df[idx + 1]) /\ idx' # idx) =>
            /\ Outcomes' = [Outcomes EXCEPT ![4] = @ + 1]
            /\ pc' = "rows"
            /\ idx' = idx + 1]_vars
    /\ [](pc = "rows" => idx <= Len(df))

\* three rows of a file without a LicenseNo column were iterated: the first
\* raised, the second missed the ZIP table, the third raised again
C24_Witness ==
    /\ LoopDone
    /\ Len(df) = 3
    /\ RowRaises(df[1])
    /\ ZipMiss(df[2])
    /\ RowRaises(df[3])
    /\ Outcomes = <<0, 1, 0, 2>>

---------------------------------------------------------------------------
(* C25: which counter a skipped row increments (checked under SpecResolve) *)

\* the outcome the order of the checks gives a row: 2 (no_bbb_id) when its
\* postal code misses the ZIP table, else 3 (no_agency_id) when its
\* affiliate misses the agency table, else 4 (invalid_license) when its
\* license does not pass, else 1 (a record)
FirstFailure(row) ==
    IF ZipMiss(row) THEN 2
    ELSE IF ~AgencyResolves(row) THEN 3
    ELSE IF ~FullyResolves(row) THEN 4
    ELSE 1

\* C25: the checks are made in the order postal code, affiliate, license:
\* every iteration adds one to the outcome of the first check the row
\* fails and to no other; a row whose affiliate is found but has no agency
\* adds to no_agency_id only and appends no record; a row with an unknown
\* postal code and a blank license adds to no_bbb_id only.
C25_SkipPrecedence ==
    [][idx' = idx + 1 =>
          Outcomes' = [Outcomes EXCEPT ![FirstFailure(df[idx + 1])] = @ + 1]]_vars

\* two rows with blank licenses were iterated, one with an unknown postal
\* code and one whose affiliate has no agency: neither is an invalid_license
C25_Witness ==
    /\ LoopDone
    /\ Len(df) = 2
    /\ ZipMiss(df[1]) /\ BlankLicense(df[1])
    /\ ~ZipMiss(df[2]) /\ ~AgencyResolves(df[2]) /\ BlankLicense(df[2])
    /\ Outcomes = <<0, 1, 1, 0>>

---------------------------------------------------------------------------
(* C26: the counters of upload_records *)

\* the loop over the batches has ended and the merge is about to start
MergeAboutToStart == pc = "batches" /\ LoopEnded(i, records)

\* C26, as stated: when the loop of upload_records over L records has
\* ended, uploaded_records and failed_records add up to L, and
\* uploaded_records is the number of rows of this run in the delta table.
C26_AsStated ==
    MergeAboutToStart =>
        /\ stats.uploaded_records + stats.failed_records = Len(records)
        /\ stats.uploaded_records = Len(delta) - hist.stale

---------------------------------------------------------------------------
(* C27: how a session of get_session ends *)

\* a session of this run has ended
SessionEnded == hist.session # <<>>

\* the step runs the session of a batch, of the clearing of the delta
\* table, or of the merge
BatchSession == pc = "batches" /\ ~LoopEnded(i, records)
ClearSession == pc = "upload_records"

\* C27, as stated: every session that has ended was either committed or
\* rolled back, and closed after it.
C27_AsStated ==
    SessionEnded => hist.session \in {Committed, RolledBack}

\* C27: every session that has ended was closed last; before that it was
\* committed, or rolled back, or, when a KeyboardInterrupt left the body,
\* neither; and the writes of the session's call are applied together or
\* not at all: a batch is in the delta table whole or not at all, the delta
\* table is cleared or as before, bbb_uploaded_data is merged or as before.
C27_SessionEndsOnce ==
    /\ [](SessionEnded =>
            /\ hist.session \in {Committed, RolledBack, ClosedOnly}
            /\ hist.session[Len(hist.session)] = "close"
            /\ hist.session = ClosedOnly => result = "KeyboardInterrupt")
    /\ [][hist'.session = RolledBack /\ hist' # hist =>
            (\E k \in 1..Len(errors') :
                errors'[k][1] \in {"Batch upload at index", "Uploading records"})]_vars
    /\ [][BatchSession => delta' \in {delta, delta \o Batch(records, i)}]_vars
    /\ [][ClearSession => delta' \in {delta, <<>>}]_vars
    /\ [][MergeStep =>
            \/ main' = main
            \/ \E dflt \in {0, now} :
                  main' = merge_delta_to_main(main, delta, now, dflt, NoFault).table]_vars
    /\ [][hist'.session \in {RolledBack, ClosedOnly} /\ hist' # hist =>
            delta' = delta /\ main' = main]_vars

\* the session of the first batch of a run of two or more records was left
\* by a KeyboardInterrupt: it was closed without commit or rollback and the
\* delta table holds no row of the batch
C27_Witness ==
    /\ hist.session = ClosedOnly
    /\ result = "KeyboardInterrupt"
    /\ hist.merged = "no"
    /\ Len(records) >= db_batch_size
    /\ delta = <<>>

---------------------------------------------------------------------------
(* upload_records over records of agencies one of whose ids begins with the
   other *)

MaxCollide == 3     \* longest list of such records handed to upload_records

\* records of two agencies, "13" and "138": license "8810" of the first and
\* license "810" of the second both get the uuid "138810"
CollideRecords ==
    {MakeRecord([ZIPCode |-> "90001", LicenseNo |-> "8810", PrimaryStatus |-> "CLEAR"],
                "1216", "13"),
     MakeRecord([ZIPCode |-> "94101", LicenseNo |-> "810", PrimaryStatus |-> "CLEAR"],
                "1300", "138"),
     MakeRecord([ZIPCode |-> "90001", LicenseNo |-> "7000", PrimaryStatus |-> "CLEAR"],
                "1216", "13")}

\* run() about to call upload_records with such records
InitCollide ==
    /\ OthersIdle
    /\ pc = "upload_records"
    /\ df = <<>>
    /\ idx = 0
    /\ records \in SeqsUpTo(CollideRecords, MaxCollide) \ {<<>>}
    /\ skipped_stats = EmptyStats
    /\ delta = <<>>
    /\ main = {}
    /\ i = 0
    /\ stats = [NewStats EXCEPT !.total_records = Len(records),
                                !.processed_records = Len(records)]
    /\ phase = "PROCESS"
    /\ closed = FALSE
    /\ engine = "pooled"
    /\ errors = <<>>
    /\ result = "none"
    /\ now = 1
    /\ deltaKeyed \in BOOLEAN
    /\ loaded = BothTables
    /\ response = NoResponse
    /\ csv_file = CsvHeader
    /\ hist = [NoHist EXCEPT !.steps = <<"fetch", "resolve">>]

SpecCollide == InitCollide /\ [][NextOrder]_vars

---------------------------------------------------------------------------
(* C28: two pairs of agency and license with one uuid *)

\* records a and b of the run come from different pairs of agency id and
\* license number and carry the same uuid
Collide(a, b) ==
    /\ records[a].uuid = records[b].uuid
    /\ <<records[a].agency_id, records[a].license_nbr>>
          # <<records[b].agency_id, records[b].license_nbr>>

\* C28, as stated: two different pairs of agency id and license number
\* with one uuid exist, and when both occur in a run that met no failure
\* from outside, bbb_uploaded_data ends with exactly one row of that uuid,
\* which carries the values of one of the two records.
C28_AsStated ==
    /\ \E x, y \in CollideRecords :
          /\ x.uuid = y.uuid
          /\ <<x.agency_id, x.license_nbr>> # <<y.agency_id, y.license_nbr>>
    /\ (pc = "finished" /\ ~hist.injected) =>
          \A a, b \in 1..Len(records) :
              Collide(a, b) =>
                  /\ Cardinality(RowsWith(main, records[a].uuid)) = 1
                  /\ ColumnsOf(RowsWith(main, records[a].uuid))
                        \subseteq {Columns(records[a]), Columns(records[b])}

---------------------------------------------------------------------------
(* cslb_service_tables_updater.py: CSLBServiceTablesUpdater *)

\* self.bbb_agency_map
bbb_agency_map ==
    [b \in {"1116", "1126", "1216", "1236"} |->
        CASE b = "1116" -> "117"
          [] b = "1126" -> "3888"
          [] b = "1216" -> "13"
          [] b = "1236" -> "2150"]

\* self.bbb_ids, self.agency_ids
bbb_ids == DOMAIN bbb_agency_map
agency_ids == {bbb_agency_map[b] : b \in bbb_ids}

\* self.cslb_agency_names
cslb_agency_names ==
    {"Contractors State Licensing Board", "Contactors State Licensing Board"}

\* run(): the tables updated when none is named
ServiceTables ==
    <<"match_results", "business_licenses_updates",
      "stage_business_licenses_updates">>

\* run(): if not tables: tables = [the three service tables]
DefaultTables(arg) == IF arg = <<>> THEN ServiceTables ELSE arg

\* url LIKE '%cslb.ca.gov%LicNum=%'
LikeCslbLicNum(u) ==
    \E k \in 1..(Len(u) - 10) :
        /\ SubSeq(u, k, k + 10) = "cslb.ca.gov"
        /\ Contains(SubSeq(u, k + 11, Len(u)), "LicNum=")

\* analyze_table: the rows counted as needing an update, which are the
\* rows of the four BBBs and agencies whose URL is NULL, is a CSLB URL
\* without LicNum=, or is an http URL of another site.  (The column is
\* agency_license_url in match_results and url in the other two tables;
\* the model calls it url in all three.)
NeedsUpdate(r) ==
    /\ r.bbb_id \in bbb_ids
    /\ r.agency_id \in agency_ids
    /\ \/ r.url = None
       \/ r.url # None /\ Contains(r.url, "cslb") /\ ~Contains(r.url, "LicNum=")
       \/ r.url # None /\ Prefix(r.url, 4) = "http" /\ ~Contains(r.url, "cslb")

\* analyze_table(table)['needs_update']
analyze_table(rows) == Cardinality({r \in rows : NeedsUpdate(r)})

\* create_url_mapping: the rows of bbb_uploaded_data the mapping is built
\* from
MappingSource(uploaded) ==
    {u \in uploaded :
        /\ u.bbb_id \in bbb_ids
        /\ u.agency_name \in cslb_agency_names
        /\ u.agency_url # None
        /\ LikeCslbLicNum(u.agency_url)}

\* create_url_mapping: SELECT DISTINCT bbb_id, license_nbr, MAX(agency_url)
\* ... GROUP BY bbb_id, license_nbr.  Every group of the model's data holds
\* one URL, which is its maximum.
create_url_mapping(uploaded) ==
    {[bbb_id |-> u.bbb_id, license_number |-> u.license_nbr,
      correct_url |-> u.agency_url] : u \in MappingSource(uploaded)}

\* update_table: the row of cslb_url_map joined to row r, if any
Mapped(r, map) ==
    {c \in map : c.bbb_id = r.bbb_id /\ c.license_number = r.license_number}

\* update_table: the WHERE clause of the UPDATE and of the dry run's count
Matches(r, map) ==
    /\ Mapped(r, map) # {}
    /\ r.agency_id \in agency_ids
    /\ \/ r.url = None
       \/ r.url # None /\ ~Contains(r.url, "cslb.ca.gov")
       \/ r.url # None /\ Contains(r.url, "cslb") /\ ~Contains(r.url, "LicNum=")

\* update_table: the table after UPDATE ... SET url = c.correct_url
Updated(rows, map) ==
    {IF Matches(r, map)
     THEN [r EXCEPT !.url = (CHOOSE c \in Mapped(r, map) : TRUE).correct_url]
     ELSE r : r \in rows}

\* update_table: the number of rows the UPDATE returns, or the dry run counts
MatchCount(rows, map) == Cardinality({r \in rows : Matches(r, map)})

\* update_table as a faulty variant: the UPDATE is executed in a dry run too
ExecutesUpdate_in_dry_run(dry) == TRUE

\* update_table: if dry_run: count and return; else execute the UPDATE
ExecutesUpdate(dry) == ~dry

\* run(): if not dry_run and not self.interrupted: self.conn.commit()
Commits(dry, intr) == ~dry /\ ~intr

\* run(): if not dry_run and self.stats['records_updated'] > 0: SUCCESS
ReportsSuccess(dry, n) == ~dry /\ n > 0

\* the history of a run that has not begun: the service tables at its
\* start, where the interrupt was received, UPDATEs executed, commits made
NoUpdaterHist(tabs) ==
    [service |-> tabs, interrupted_at |-> "never", table_at |-> 0,
     updates |-> 0, commits |-> 0]

\* the steps of run() at which the interpreter can run the signal handler
UpdaterRunning ==
    {"connect", "analyze", "create_url_mapping", "update_tables", "summary",
     "finally"}

\* rows of the service tables
ServiceRow(id, b, a, l, u) ==
    [id |-> id, bbb_id |-> b, agency_id |-> a, license_number |-> l, url |-> u]

\* contents a service table can have when the run begins: empty, a row
\* with no URL, a row with the right URL, a row with the URL of another
\* site next to a row with a CSLB URL that lacks LicNum=
TableContents ==
    {{},
     {ServiceRow(1, "1216", "13", "8810", None)},
     {ServiceRow(2, "1216", "13", "8810", UrlTemplate \o "8810")},
     {ServiceRow(3, "1216", "13", "8810", "https://business.example"),
      ServiceRow(4, "1116", "117", "7000", "https://www.cslb.ca.gov/7000")}}

\* rows of bbb_uploaded_data, with the columns create_url_mapping reads
UploadedRow(b, l, n, u) ==
    [bbb_id |-> b, license_nbr |-> l, agency_name |-> n, agency_url |-> u]

\* contents of bbb_uploaded_data when the run begins: empty, the two
\* licenses under both spellings of the agency name, one license next to
\* rows the mapping leaves out (another agency, another site's URL)
UploadedContents ==
    {{},
     {UploadedRow("1216", "8810", "Contractors State Licensing Board",
                  UrlTemplate \o "8810"),
      UploadedRow("1116", "7000", "Contactors State Licensing Board",
                  UrlTemplate \o "7000")},
     {UploadedRow("1216", "8810", "Contractors State Licensing Board",
                  UrlTemplate \o "8810"),
      UploadedRow("1116", "7000", "Board of Barbering",
                  UrlTemplate \o "7000"),
      UploadedRow("1116", "7000", "Contractors State Licensing Board",
                  "https://business.example")}}

\* the --tables argument: absent, or one table named
TablesArgs == {<<>>, <<"business_licenses_updates">>}

\* CSLBServiceTablesUpdater() constructed, run(dry_run, tables) called
InitUpdater ==
    /\ \E up \in UploadedContents : CollectorIdleWith(up)
    /\ AuditIdle
    /\ updater_pc = "connect"
    /\ dry_run \in BOOLEAN
    /\ tables \in {DefaultTables(a) : a \in TablesArgs}
    /\ interrupted = FALSE
    /\ conn = "none"
    /\ service \in [{ServiceTables[k] : k \in 1..Len(ServiceTables)} -> TableContents]
    /\ updater_hist = NoUpdaterHist(service)
    /\ txn = service
    /\ cslb_url_map = {}
    /\ analyses = <<>>
    /\ table_ix = 0
    /\ records_updated = 0
    /\ updater_log = {}
    /\ exit_code = "none"

\* _signal_handler: SIGINT sets self.interrupted and nothing else
signal_handler ==
    /\ updater_pc \in UpdaterRunning
    /\ ~interrupted
    /\ interrupted' = TRUE
    /\ updater_log' = updater_log \cup {"Interrupt received"}
    /\ updater_hist' = [updater_hist EXCEPT !.interrupted_at = updater_pc,
                                            !.table_at = table_ix]
    /\ UNCHANGED <<collector_vars, audit_vars, updater_pc, dry_run, tables, conn,
                   service, txn, cslb_url_map, analyses, table_ix,
                   records_updated, exit_code>>

\* run(): self.connect(); a failure is logged, re-raised and ends the run
\* through finally with self.conn still None
updater_connect ==
    /\ updater_pc = "connect"
    /\ \E ok \in BOOLEAN :
          IF ok
          THEN /\ conn' = "open"
               /\ updater_pc' = "analyze"
               /\ UNCHANGED <<updater_log, exit_code>>
          ELSE /\ conn' = "none"
               /\ updater_pc' = "finally"
               /\ updater_log' = updater_log \cup {"Fatal error"}
               /\ exit_code' = "1"
    /\ UNCHANGED <<collector_vars, audit_vars, dry_run, tables, interrupted,
                   service, updater_hist, txn, cslb_url_map, analyses, table_ix,
                   records_updated>>

\* run(): analyze_table for every table; return when nothing needs an
\* update
updater_analyze ==
    /\ updater_pc = "analyze"
    /\ analyses' = [t \in {tables[k] : k \in 1..Len(tables)} |->
                       analyze_table(txn[t])]
    /\ IF \A t \in DOMAIN analyses' : analyses'[t] = 0
       THEN /\ updater_log' = updater_log \cup {"No updates needed"}
            /\ updater_pc' = "finally"
       ELSE /\ updater_pc' = "create_url_mapping"
            /\ UNCHANGED updater_log
    /\ UNCHANGED <<collector_vars, audit_vars, dry_run, tables, interrupted,
                   conn, service, updater_hist, txn, cslb_url_map, table_ix,
                   records_updated, exit_code>>

\* run(): create_url_mapping(dry_run): the temporary table is built and,
\* outside a dry run, committed; a failure rolls back and ends the run;
\* the run returns when the mapping is empty
updater_create_url_mapping ==
    /\ updater_pc = "create_url_mapping"
    /\ \E fault \in BOOLEAN :
          IF fault
          THEN /\ txn' = service
               /\ updater_pc' = "finally"
               /\ updater_log' = updater_log \cup {"Fatal error"}
               /\ exit_code' = "1"
               /\ UNCHANGED <<cslb_url_map, service, updater_hist>>
          ELSE /\ cslb_url_map' = create_url_mapping(main)
               /\ IF ~dry_run
                  THEN /\ service' = txn
                       /\ updater_hist' =
                             [updater_hist EXCEPT !.commits = @ + 1]
                  ELSE UNCHANGED <<service, updater_hist>>
               /\ IF cslb_url_map' = {}
                  THEN /\ updater_log' = updater_log \cup {"No URL mappings found"}
                       /\ updater_pc' = "finally"
                  ELSE /\ updater_pc' = "update_tables"
                       /\ UNCHANGED updater_log
               /\ UNCHANGED <<txn, exit_code>>
    /\ table_ix' = 0
    /\ UNCHANGED <<collector_vars, audit_vars, dry_run, tables, interrupted,
                   conn, analyses, records_updated>>

\* run(): one iteration of `for table in tables`: break when interrupted;
\* update_table(table, dry_run) when the analysis found rows to update,
\* whose failure rolls back and ends the run; the loop's end leads to the
\* commit
updater_update_table ==
    /\ updater_pc = "update_tables"
    /\ IF table_ix = Len(tables)
       THEN /\ updater_pc' = "summary"
            /\ UNCHANGED <<txn, table_ix, records_updated, updater_log,
                           updater_hist, exit_code>>
       ELSE IF interrupted
       THEN /\ updater_log' = updater_log \cup {"Process interrupted by user"}
            /\ updater_pc' = "summary"
            /\ UNCHANGED <<txn, table_ix, records_updated, updater_hist,
                           exit_code>>
       ELSE LET t == tables[table_ix + 1]
            IN  IF analyses[t] > 0
                THEN \E fault \in BOOLEAN :
                        IF fault
                        THEN /\ txn' = service
                             /\ updater_pc' = "finally"
                             /\ updater_log' = updater_log \cup {"Fatal error"}
                             /\ exit_code' = "1"
                             /\ UNCHANGED <<table_ix, records_updated,
                                            updater_hist>>
                        ELSE /\ IF ExecutesUpdate(dry_run)
                                THEN /\ txn' = [txn EXCEPT
                                                  ![t] = Updated(@, cslb_url_map)]
                                     /\ records_updated' = records_updated
                                           + MatchCount(txn[t], cslb_url_map)
                                     /\ updater_hist' = [updater_hist EXCEPT
                                                           !.updates = @ + 1]
                                ELSE UNCHANGED <<txn, records_updated,
                                                 updater_hist>>
                             /\ table_ix' = table_ix + 1
                             /\ UNCHANGED <<updater_pc, updater_log, exit_code>>
                ELSE /\ table_ix' = table_ix + 1
                     /\ UNCHANGED <<txn, records_updated, updater_pc,
                                    updater_log, updater_hist, exit_code>>
    /\ UNCHANGED <<collector_vars, audit_vars, dry_run, tables, interrupted,
                   conn, service, cslb_url_map, analyses>>

\* run(): commit unless dry run or interrupted, then the summary, which
\* logs SUCCESS when records were updated outside a dry run
updater_summary ==
    /\ updater_pc = "summary"
    /\ IF Commits(dry_run, interrupted)
       THEN /\ service' = txn
            /\ updater_hist' = [updater_hist EXCEPT !.commits = @ + 1]
       ELSE UNCHANGED <<service, updater_hist>>
    /\ updater_log' = updater_log
          \cup (IF Commits(dry_run, interrupted)
                THEN {"All changes committed to database"} ELSE {})
          \cup (IF ~Commits(dry_run, interrupted) /\ dry_run
                THEN {"[DRY RUN] No changes made to database"} ELSE {})
          \cup (IF ReportsSuccess(dry_run, records_updated)
                THEN {"SUCCESS! CSLB URLs have been fixed."} ELSE {})
    /\ updater_pc' = "finally"
    /\ UNCHANGED <<collector_vars, audit_vars, dry_run, tables, interrupted,
                   conn, txn, cslb_url_map, analyses, table_ix,
                   records_updated, exit_code>>

\* run(): finally: self.disconnect(), which closes the connection and
\* with it discards what was not committed; main() then exits 0 unless
\* run() raised
updater_disconnect ==
    /\ updater_pc = "finally"
    /\ conn' = IF conn = "open" THEN "closed" ELSE conn
    /\ txn' = service
    /\ cslb_url_map' = {}
    /\ exit_code' = IF exit_code = "none" THEN "0" ELSE exit_code
    /\ updater_pc' = "exited"
    /\ UNCHANGED <<collector_vars, audit_vars, dry_run, tables, interrupted,
                   service, updater_hist, analyses, table_ix, records_updated,
                   updater_log>>

NextUpdater ==
    \/ signal_handler
    \/ updater_connect
    \/ updater_analyze
    \/ updater_create_url_mapping
    \/ updater_update_table
    \/ updater_summary
    \/ updater_disconnect

SpecUpdater == InitUpdater /\ [][NextUpdater]_vars

\* the types of the updater's state
UpdaterTypeOK ==
    /\ updater_pc \in UpdaterRunning \cup {"exited"}
    /\ table_ix \in 0..Len(tables)
    /\ records_updated \in Nat
    /\ conn \in {"none", "open", "closed"}
    /\ exit_code \in {"none", "0", "1"}

---------------------------------------------------------------------------
(* C29: an interrupt while the tables are being updated *)

\* the interrupt was received inside the loop over the tables, after the
\* update of at least one table had begun
InterruptedWhileUpdating ==
    /\ updater_hist.interrupted_at = "update_tables"
    /\ updater_hist.table_at >= 1

\* the run logged its report of success
SuccessReported == "SUCCESS! CSLB URLs have been fixed." \in updater_log

\* C29, as stated: after an interrupt received while the tables are being
\* updated, the run ends with no table updated beyond the one in progress,
\* with the service tables as they were before the run, and without
\* reporting the update as a success.
C29_AsStated ==
    (updater_pc = "exited" /\ InterruptedWhileUpdating) =>
        /\ table_ix = updater_hist.table_at
        /\ service = updater_hist.service
        /\ ~SuccessReported

---------------------------------------------------------------------------
(* C30: a dry run changes nothing *)

\* the dry run reached update_table for a table whose rows match the
\* mapping, and the run has ended
DryRunCounted ==
    /\ dry_run
    /\ updater_pc = "exited"
    /\ exit_code = "0"
    /\ table_ix = Len(tables)
    /\ \E t \in DOMAIN analyses :
          /\ analyses[t] > 0
          /\ MatchCount(service[t], create_url_mapping(main)) > 0

\* C30: in a dry run no UPDATE is executed on a service table and nothing
\* is committed, so at every point of the run, whether it ends normally or
\* with an error, the three service tables hold what they held when the
\* run began.
C30_DryRunChangesNothing ==
    dry_run =>
        /\ updater_hist.updates = 0
        /\ updater_hist.commits = 0
        /\ txn = updater_hist.service
        /\ service = updater_hist.service

C30_Witness == DryRunCounted

====
